---- MODULE Spec2Model ----
(***************************************************************************)
(* PIXELCRM-IA: the HOMELIOR rule engine (src/src/homelior_rules.py) and   *)
(* the aggregation of src/src/validator.py, as a state machine.            *)
(*                                                                         *)
(* A filename is the sequence of its characters; a text is the sequence of *)
(* the tokens that single spaces separate in it (a phrase the code looks   *)
(* for, a dd/mm/yyyy date, an amount, a reference number).  The regular    *)
(* expressions of the code are the operators below, on token sequences.    *)
(* In the texts of the model a word always separates an amount from a      *)
(* number before it.                                                       *)
(***************************************************************************)
EXTENDS Integers, Sequences, FiniteSets, TLC

VARIABLES
    entry,          \* what the caller entered: "analyze", "validate" or "handler"
    pdf_texts,      \* the text bundle: sequence of [name, text] in insertion order
    fields,         \* dossier.fields: field name -> value, as a token (W("") if unset)
    pc,             \* position in the running function
    docs,           \* the six classified documents (each None or Some(doc))
    dates,          \* date_devis, date_facture, date_bl (each None or Some(date))
    problems,       \* the problems list of analyze_homelior
    verdict,        \* what analyze_homelior returned (None until it returns)
    raised,         \* TRUE when an exception escaped to the caller
    recheck,        \* the caller evaluates the bundle again with one file removed
    prev,           \* the evaluation before the removal (None, or Some of it)
    delegataire,    \* dossier.delegataire
    deleg_rules,    \* rules_cfg.get(dossier.delegataire, {})
    field_result,   \* what validate_fields returned (None before)
    tech_problems,  \* the problems of files without text
    uploaded_missing_docs,  \* the required document types no file name shows
    pdf_result,     \* the result of the PDF analysis (None before)
    result,         \* what validate_dossier returned (None before)
    ignored_files,  \* the names of the uploads without content
    response        \* what the /analyze handler answers (None before)

----------------------------------------------------------------------------
(* Optional values: Python's None and a present value.                     *)
None == <<>>
Some(x) == <<x>>
IsSome(o) == o # <<>>
Val(o) == o[1]

(* Tokens of a text.                                                       *)
W(s) == [k |-> "w", s |-> s, a |-> 0, b |-> 0, c |-> 0]
\* "dd/mm/yyyy", two, two and four digits
D(dd, mm, yyyy) == [k |-> "date", s |-> "/", a |-> dd, b |-> mm, c |-> yyyy]
\* an amount: units, separator, nfrac decimal digits of value frac
A(units, sep, frac, nfrac) == [k |-> "amt", s |-> sep, a |-> units, b |-> frac, c |-> nfrac]
\* a reference "yyyy-nnnn" with ndigits digits after the dash
R(yyyy, ndigits) == [k |-> "ref", s |-> "-", a |-> yyyy, b |-> ndigits, c |-> 0]

RECURSIVE Pow10(_)
Pow10(n) == IF n = 0 THEN 1 ELSE 10 * Pow10(n - 1)

RECURSIVE SeqSum(_)
SeqSum(s) == IF s = <<>> THEN 0 ELSE Head(s) + SeqSum(Tail(s))

RECURSIVE Concat(_)
Concat(ss) == IF ss = <<>> THEN <<>> ELSE Head(ss) \o Concat(Tail(ss))

\* the least element of a non-empty set of integers
Least(S) == CHOOSE x \in S : \A y \in S : x <= y

----------------------------------------------------------------------------
(* _normalize: lower-cases the words of a text (the texts of the model     *)
(* carry no accents and single spaces only); "" stays "".                  *)
LowerWord(s) ==
    CASE s = "DEVIS" -> "devis"
      [] s = "Date de cette proposition" -> "date de cette proposition"
      [] s = "Le" -> "le"
      [] s = "Reste a payer" -> "reste a payer"
      [] OTHER -> s

_normalize(text) ==
    [i \in DOMAIN text |->
        IF text[i].k = "w" THEN W(LowerWord(text[i].s)) ELSE text[i]]

----------------------------------------------------------------------------
(* datetime.strptime(s, "%d/%m/%Y").date(): the date, or ValueError.       *)
IsLeap(y) == (y % 4 = 0 /\ y % 100 # 0) \/ y % 400 = 0

DaysIn(m, y) ==
    IF m = 2 THEN (IF IsLeap(y) THEN 29 ELSE 28)
    ELSE IF m \in {4, 6, 9, 11} THEN 30 ELSE 31

strptime(tok) ==
    IF tok.c >= 1 /\ tok.b \in 1..12 /\ tok.a >= 1 /\ tok.a <= DaysIn(tok.b, tok.c)
    THEN [exc |-> FALSE, d |-> tok.a, m |-> tok.b, y |-> tok.c]
    ELSE [exc |-> TRUE, d |-> 0, m |-> 0, y |-> 0]

DateOf(r) == [d |-> r.d, m |-> r.m, y |-> r.y]

\* what a call returns: a value, or an exception that escapes it
Ret(v) == [exc |-> FALSE, v |-> v]
Raise == [exc |-> TRUE, v |-> <<>>]

\* _parse_date without its try/except
_parse_date_mut(tok) ==
    LET r == strptime(tok) IN IF r.exc THEN Raise ELSE Ret(Some(DateOf(r)))

\* _parse_date: try strptime, None on any exception
_parse_date(tok) ==
    LET r == strptime(tok) IN IF r.exc THEN Ret(None) ELSE Ret(Some(DateOf(r)))

\* date <= date
DateLe(x, y) ==
    \/ x.y < y.y
    \/ x.y = y.y /\ x.m < y.m
    \/ x.y = y.y /\ x.m = y.m /\ x.d <= y.d

----------------------------------------------------------------------------
(* The regular expressions of the code, on a normalized text.              *)

\* phrase in txt
InText(phrase, txt) == \E i \in DOMAIN txt : txt[i] = W(phrase)

\* re.search(r"\b(\d{2}/\d{2}/\d{4})\b", text): the first date-shaped token
_find_date_any(txt) ==
    LET I == {i \in DOMAIN txt : txt[i].k = "date"}
    IN  IF I = {} THEN None ELSE Some(txt[Least(I)])

\* re.search(label + r"\s*[:\-]?\s*(\d{2}/\d{2}/\d{4})", text): the date-shaped
\* token of the leftmost place where one follows the label
SearchLabeledDate(label, txt) ==
    LET I == {i \in DOMAIN txt : i < Len(txt) /\ txt[i] = W(label) /\ txt[i + 1].k = "date"}
    IN  IF I = {} THEN None ELSE Some(txt[Least(I) + 1])

\* characters of the gap between tokens i and j: the words between them and
\* the spaces around them
GapChars(txt, i, j) ==
    (j - i) + SeqSum([n \in 1..(j - i - 1) |-> Len(txt[i + n].s)])

\* re.search(r"devis[^0-9]{0,30}(\d{2}/\d{2}/\d{4})", text)
SearchDevisDate(txt) ==
    LET Ok(i, j) == /\ txt[i] = W("devis")
                    /\ i < j
                    /\ txt[j].k = "date"
                    /\ \A n \in (i + 1)..(j - 1) : txt[n].k = "w"
                    /\ GapChars(txt, i, j) <= 30
        I == {i \in DOMAIN txt : \E j \in DOMAIN txt : Ok(i, j)}
    IN  IF I = {} THEN None
        ELSE LET i == Least(I) IN Some(txt[CHOOSE j \in DOMAIN txt : Ok(i, j)])

\* a header search content with the word "devis"
SearchHeader_mut(txt) == \E i \in DOMAIN txt : txt[i] = W("devis")

\* re.search(r"devis\s+2024[- ]?\d{4,}", devis_norm)
SearchHeader(txt) ==
    \E i \in DOMAIN txt :
        /\ i < Len(txt)
        /\ txt[i] = W("devis")
        /\ txt[i + 1].k = "ref" /\ txt[i + 1].a = 2024 /\ txt[i + 1].b >= 4

\* a token that (\d[\d\s]*[.,]\d{2}) matches from its first character
IsAmount(tok) == tok.k = "amt" /\ tok.c >= 2

\* the group (\d[\d\s]*[.,]\d{2}) captured in an amount: two decimals kept
Captured(tok) ==
    [tok EXCEPT !.b = tok.b \div Pow10(tok.c - 2), !.c = 2]

\* re.search(r"mise en place de luminaires neufs.*?(\d[\d\s]*[.,]\d{2})", text)
SearchPrice(txt) ==
    LET P == {i \in DOMAIN txt : txt[i] = W("mise en place de luminaires neufs")}
        J == {j \in DOMAIN txt : IsAmount(txt[j]) /\ \E i \in P : i < j}
    IN  IF J = {} THEN None ELSE Some(Captured(txt[Least(J)]))

\* re.search(r"une prime d un montant de\s+(\d[\d\s]*[.,]\d{2})", text)
SearchPrime(txt) ==
    LET I == {i \in DOMAIN txt : /\ i < Len(txt)
                                 /\ txt[i] = W("une prime d un montant de")
                                 /\ IsAmount(txt[i + 1])}
    IN  IF I = {} THEN None ELSE Some(Captured(txt[Least(I) + 1]))

\* re.search(r"reste a payer\s*0\.0{2}", text with "," replaced by ".")
SearchResteAPayer(txt) ==
    \E i \in DOMAIN txt :
        /\ i < Len(txt)
        /\ txt[i] = W("reste a payer")
        /\ IsAmount(txt[i + 1])
        /\ txt[i + 1].a = 0
        /\ Captured(txt[i + 1]).b = 0

----------------------------------------------------------------------------
(* float(): IEEE 754 binary64, round to nearest even.  A binary64 value is  *)
(* m * 2^-q with m written in binary, most significant digit first.         *)

Greatest(S) == CHOOSE x \in S : \A y \in S : x >= y

\* binary digits computed after the point before rounding
FracDigits == 66

\* 2^i mod 1000, by repeated squaring
RECURSIVE Pow2Mod(_)
Pow2Mod(i) ==
    IF i = 0 THEN 1
    ELSE LET h == Pow2Mod(i \div 2)
         IN  (h * h * (IF i % 2 = 1 THEN 2 ELSE 1)) % 1000

\* the binary digits of the natural n < 2^30
BitsOfInt(n) ==
    LET len == Least({k \in 0..30 : 2^k > n})
    IN  [i \in 1..len |-> (n \div 2^(len - i)) % 2]

\* digit i after the point of r/den in binary (0 <= r < den, den divides 1000)
FracBit(r, den, i) == (2 * ((r * Pow2Mod(i - 1)) % den)) \div den

Zeros(n) == [i \in 1..n |-> 0]

StripZeros(bs) ==
    LET I == {i \in DOMAIN bs : bs[i] = 1}
    IN  IF I = {} THEN <<>> ELSE SubSeq(bs, Least(I), Len(bs))

\* bs + 1
Inc(bs) ==
    LET Z == {i \in DOMAIN bs : bs[i] = 0}
    IN  IF Z = {} THEN <<1>> \o Zeros(Len(bs))
        ELSE [i \in DOMAIN bs |->
                IF i < Greatest(Z) THEN bs[i] ELSE IF i = Greatest(Z) THEN 1 ELSE 0]

\* the binary64 nearest to (digits bs, then more digits iff sticky) * 2^-q:
\* 53 significant digits, round half to even
Round53(bs, q, sticky) ==
    LET s == StripZeros(bs)
    IN  IF Len(s) <= 53 THEN [m |-> s, q |-> q]
        ELSE LET keep == SubSeq(s, 1, 53)
                 rest == SubSeq(s, 54, Len(s))
                 st == sticky \/ \E i \in 2..Len(rest) : rest[i] = 1
                 up == rest[1] = 1 /\ (st \/ keep[53] = 1)
             IN  [m |-> IF up THEN Inc(keep) ELSE keep, q |-> q - Len(rest)]

\* the binary64 nearest to the decimal n/den, n >= 0
ToDouble(n, den) ==
    LET ib == BitsOfInt(n \div den)
        r == n % den
        fb == [i \in 1..FracDigits |-> FracBit(r, den, i)]
    IN  IF n = 0 THEN [m |-> <<>>, q |-> 0]
        ELSE Round53(ib \o fb, FracDigits, (r * Pow2Mod(FracDigits)) % den # 0)

\* bs < cs as naturals
LessBits(bs, cs) ==
    LET b == StripZeros(bs)
        c == StripZeros(cs)
        Df == {i \in DOMAIN b : b[i] # c[i]}
    IN  IF Len(b) # Len(c) THEN Len(b) < Len(c)
        ELSE Df # {} /\ b[Least(Df)] < c[Least(Df)]

Align(v, q) == v.m \o Zeros(q - v.q)
MaxQ(v, w) == IF v.q > w.q THEN v.q ELSE w.q

\* v < w
DLess(v, w) == LessBits(Align(v, MaxQ(v, w)), Align(w, MaxQ(v, w)))

PadTo(bs, n) == Zeros(n - Len(bs)) \o bs

\* bs - cs, both of length n, bs >= cs: the digit at i borrows when the
\* digits after i of bs are less than those of cs
SubBits(bs, cs) ==
    LET n == Len(bs)
        Borrow(i) == LessBits(SubSeq(bs, i + 1, n), SubSeq(cs, i + 1, n))
    IN  [i \in 1..n |-> (bs[i] - cs[i] - (IF Borrow(i) THEN 1 ELSE 0) + 2) % 2]

\* abs(v - w)
DAbsDiff(v, w) ==
    LET q == MaxQ(v, w)
        a == Align(v, q)
        b == Align(w, q)
        n == IF Len(a) > Len(b) THEN Len(a) ELSE Len(b)
        hi == IF LessBits(a, b) THEN b ELSE a
        lo == IF LessBits(a, b) THEN a ELSE b
    IN  Round53(SubBits(PadTo(hi, n), PadTo(lo, n)), q, FALSE)

\* the decimal a token writes, in thousandths (amount tokens only)
Milli(tok) == (tok.a * Pow10(tok.c) + tok.b) * Pow10(3 - tok.c)

\* float(s) after the separators are normalised: ValueError unless s is a number
float(tok) ==
    IF tok.k = "amt"
    THEN [exc |-> FALSE, v |-> ToDouble(tok.a * Pow10(tok.c) + tok.b, Pow10(tok.c))]
    ELSE [exc |-> TRUE, v |-> [m |-> <<>>, q |-> 0]]

\* a comparison without the tolerance
ExceedsTolerance_mut(cadre_val, prime_val) == cadre_val # prime_val

\* abs(cadre_val - prime_val) > 0.01
ExceedsTolerance(cadre_val, prime_val) ==
    DLess(ToDouble(1, 100), DAbsDiff(cadre_val, prime_val))

----------------------------------------------------------------------------
(* Filenames and the keywords of the six roles.                            *)

Contains(s, sub) ==
    \E i \in 1..(Len(s) - Len(sub) + 1) : SubSeq(s, i, i + Len(sub) - 1) = sub

LowerChar(ch) ==
    CASE ch = "A" -> "a" [] ch = "B" -> "b" [] ch = "C" -> "c" [] ch = "D" -> "d"
      [] ch = "F" -> "f" [] ch = "H" -> "h" [] ch = "L" -> "l" [] ch = "T" -> "t"
      [] OTHER -> ch

\* str.lower()
Lower(s) == [i \in DOMAIN s |-> LowerChar(s[i])]

kw_devis == <<"d", "e", "v", "i", "s">>
kw_cadre == <<"c", "a", "d", "r", "e">>
kw_facture == <<"f", "a", "c", "t", "u", "r", "e">>
kw_bon == <<"b", "o", "n">>
kw_livraison == <<"l", "i", "v", "r", "a", "i", "s", "o", "n">>
kw_ah == <<"a", "h">>
kw_attestation == <<"a", "t", "t", "e", "s", "t", "a", "t", "i", "o", "n">>
kw_honneur == <<"h", "o", "n", "n", "e", "u", "r">>
kw_aft == <<"a", "f", "t">>
kw_fin == <<"f", "i", "n">>
kw_travaux == <<"t", "r", "a", "v", "a", "u", "x">>

\* a lookup that keeps the last matching file
_find_doc_by_name_mut(texts, keywords) ==
    LET I == {i \in DOMAIN texts :
                \A n \in DOMAIN keywords : Contains(Lower(texts[i].name), keywords[n])}
    IN  IF I = {} THEN None
        ELSE Some([name |-> texts[Greatest(I)].name,
                   txt |-> texts[Greatest(I)].text,
                   norm |-> _normalize(texts[Greatest(I)].text)])

\* the loop of _find_doc_by_name from file i on
RECURSIVE FindFrom(_, _, _)
FindFrom(texts, keywords, i) ==
    IF i > Len(texts) THEN None
    ELSE IF \A n \in DOMAIN keywords : Contains(Lower(texts[i].name), keywords[n])
    THEN Some([name |-> texts[i].name,
               txt |-> texts[i].text,
               norm |-> _normalize(texts[i].text)])
    ELSE FindFrom(texts, keywords, i + 1)

\* _find_doc_by_name: the first file whose lower-cased name contains every
\* keyword, as (name, content, normalized content); None if there is none
_find_doc_by_name(texts, keywords) == FindFrom(texts, keywords, 1)

\* x or y, for optional values
OrElse(x, y) == IF IsSome(x) THEN x ELSE y

\* a classification that takes "attest" for the honor statement
Classify_mut(texts) ==
    [devis |-> _find_doc_by_name(texts, <<kw_devis>>),
     cadre |-> _find_doc_by_name(texts, <<kw_cadre>>),
     facture |-> _find_doc_by_name(texts, <<kw_facture>>),
     bl |-> _find_doc_by_name(texts, <<kw_bon, kw_livraison>>),
     ah |-> _find_doc_by_name(texts, <<<<"a", "t", "t", "e", "s", "t">>>>),
     aft |-> OrElse(_find_doc_by_name(texts, <<kw_aft>>),
                    _find_doc_by_name(texts, <<kw_fin, kw_travaux>>))]

\* lines 88-97 of analyze_homelior
\* a classification without the second keyword sets
Classify_primary_mut(texts) ==
    [devis |-> _find_doc_by_name(texts, <<kw_devis>>),
     cadre |-> _find_doc_by_name(texts, <<kw_cadre>>),
     facture |-> _find_doc_by_name(texts, <<kw_facture>>),
     bl |-> _find_doc_by_name(texts, <<kw_bon, kw_livraison>>),
     ah |-> _find_doc_by_name(texts, <<kw_ah>>),
     aft |-> _find_doc_by_name(texts, <<kw_aft>>)]

\* a classification that tries the second keyword set first
Classify_fallback_mut(texts) ==
    [devis |-> _find_doc_by_name(texts, <<kw_devis>>),
     cadre |-> _find_doc_by_name(texts, <<kw_cadre>>),
     facture |-> _find_doc_by_name(texts, <<kw_facture>>),
     bl |-> _find_doc_by_name(texts, <<kw_bon, kw_livraison>>),
     ah |-> OrElse(_find_doc_by_name(texts, <<kw_attestation, kw_honneur>>),
                   _find_doc_by_name(texts, <<kw_ah>>)),
     aft |-> OrElse(_find_doc_by_name(texts, <<kw_fin, kw_travaux>>),
                    _find_doc_by_name(texts, <<kw_aft>>))]

Classify(texts) ==
    [devis |-> _find_doc_by_name(texts, <<kw_devis>>),
     cadre |-> _find_doc_by_name(texts, <<kw_cadre>>),
     facture |-> _find_doc_by_name(texts, <<kw_facture>>),
     bl |-> _find_doc_by_name(texts, <<kw_bon, kw_livraison>>),
     ah |-> OrElse(_find_doc_by_name(texts, <<kw_ah>>),
                   _find_doc_by_name(texts, <<kw_attestation, kw_honneur>>)),
     aft |-> OrElse(_find_doc_by_name(texts, <<kw_aft>>),
                    _find_doc_by_name(texts, <<kw_fin, kw_travaux>>))]

NoDocs == [devis |-> None, cadre |-> None, facture |-> None,
           bl |-> None, ah |-> None, aft |-> None]

NoDates == [devis |-> None, facture |-> None, bl |-> None, candidats |-> <<>>]

----------------------------------------------------------------------------
(* 1) Reference dates.  Each step yields the new dates, or an exception.   *)

\* 1.a that leaves date_devis alone and only keeps the frame as a candidate
DatesCadre_mut(dc, dt) ==
    IF dc.cadre = None THEN [exc |-> FALSE, dates |-> dt]
    ELSE [exc |-> FALSE,
          dates |-> [dt EXCEPT !.candidats = Append(@, Val(dc.cadre).norm)]]

\* 1.a: the frame's "date de cette proposition"
DatesCadre(dc, dt) ==
    IF dc.cadre = None THEN [exc |-> FALSE, dates |-> dt]
    ELSE LET cadre_norm == Val(dc.cadre).norm
             m == SearchLabeledDate("date de cette proposition", cadre_norm)
             d == IF IsSome(m) THEN _parse_date(Val(m)) ELSE Ret(None)
         IN  [exc |-> d.exc,
              dates |-> [dt EXCEPT !.devis = IF IsSome(d.v) THEN d.v ELSE @,
                                   !.candidats = Append(@, cadre_norm)]]

\* 1.b without the "and not date_devis" of line 135
DatesFacture_mut(dc, dt) ==
    IF dc.facture = None THEN [exc |-> FALSE, dates |-> dt]
    ELSE LET fac_norm == Val(dc.facture).norm
             m_dev == SearchDevisDate(fac_norm)
             d2 == IF IsSome(m_dev) THEN _parse_date(Val(m_dev)) ELSE Ret(None)
             m_fact == SearchLabeledDate("date de facture", fac_norm)
             s == _find_date_any(fac_norm)
             d == IF IsSome(m_fact) THEN _parse_date(Val(m_fact))
                  ELSE IF IsSome(s) THEN _parse_date(Val(s))
                  ELSE Ret(None)
         IN  [exc |-> d2.exc \/ d.exc,
              dates |-> [dt EXCEPT
                  !.devis = IF IsSome(d2.v) THEN d2.v ELSE @,
                  !.candidats = Append(@, fac_norm),
                  !.facture = IF IsSome(d.v) THEN d.v ELSE @]]

\* 1.b: the invoice's "devis du ..." and its own date
DatesFacture(dc, dt) ==
    IF dc.facture = None THEN [exc |-> FALSE, dates |-> dt]
    ELSE LET fac_norm == Val(dc.facture).norm
             m_dev == SearchDevisDate(fac_norm)
             d2 == IF IsSome(m_dev) THEN _parse_date(Val(m_dev)) ELSE Ret(None)
             m_fact == SearchLabeledDate("date de facture", fac_norm)
             s == _find_date_any(fac_norm)
             d == IF IsSome(m_fact) THEN _parse_date(Val(m_fact))
                  ELSE IF IsSome(s) THEN _parse_date(Val(s))
                  ELSE Ret(None)
         IN  [exc |-> d2.exc \/ d.exc,
              dates |-> [dt EXCEPT
                  !.devis = IF IsSome(d2.v) /\ dt.devis = None THEN d2.v ELSE @,
                  !.candidats = Append(@, fac_norm),
                  !.facture = IF IsSome(d.v) THEN d.v ELSE @]]

\* 1.c: the loop over candidats_devis_dates, from candidate i on
RECURSIVE FirstCandidate(_, _)
FirstCandidate(candidats, i) ==
    IF i > Len(candidats) THEN Ret(None)
    ELSE LET s == _find_date_any(candidats[i])
             d == IF IsSome(s) THEN _parse_date(Val(s)) ELSE Ret(None)
         IN  IF d.exc THEN Raise
             ELSE IF IsSome(d.v) THEN d
             ELSE FirstCandidate(candidats, i + 1)

DatesFallback(dc, dt) ==
    IF dt.devis # None THEN [exc |-> FALSE, dates |-> dt]
    ELSE LET d == FirstCandidate(dt.candidats, 1)
         IN  [exc |-> d.exc,
              dates |-> [dt EXCEPT !.devis = IF IsSome(d.v) THEN d.v ELSE @]]

\* 1.d: the delivery note's date
DatesBL(dc, dt) ==
    IF dc.bl = None THEN [exc |-> FALSE, dates |-> dt]
    ELSE LET s == _find_date_any(Val(dc.bl).norm)
             d == IF IsSome(s) THEN _parse_date(Val(s)) ELSE Ret(None)
         IN  [exc |-> d.exc,
              dates |-> [dt EXCEPT !.bl = IF IsSome(d.v) THEN d.v ELSE @]]

----------------------------------------------------------------------------
(* Problems: the role a message starts with, the message, and the values   *)
(* formatted into it.                                                      *)
Problem(role, msg, args) == [role |-> role, msg |-> msg, args |-> args]

DevisHeader == Problem("DEVIS", "l'en-tete DEVIS 2024-xxxxx n'est pas retrouve clairement", <<>>)
DevisEclairage == Problem("DEVIS", "le type d'eclairage n'est pas retrouve clairement", <<>>)
DevisPrixHorsPlage(price_str) == Problem("DEVIS", "P.U TTC attendu 42,315 ; trouve", <<price_str>>)
DevisPrixIllisible == Problem("DEVIS", "impossible d'interpreter le P.U TTC", <<>>)
DevisPrixAbsent == Problem("DEVIS", "aucun P.U TTC clair trouve", <<>>)
DevisDateHorsFenetre(d) == Problem("DEVIS", "la date de devis n'est pas comprise entre le 01/01/2024 et le 28/02/2024", <<d>>)
DevisDateIndeterminee == Problem("DEVIS", "impossible de determiner clairement la date du devis", <<>>)
DevisResteAPayer == Problem("DEVIS", "la mention Reste a payer 0,00 n'est pas retrouvee clairement", <<>>)
DevisAbsent == Problem("DEVIS", "aucun document dont le nom contient 'DEVIS' n'a ete trouve", <<>>)

CadrePhraseAbsente == Problem("CADRE", "la phrase une prime d'un montant de ... euros n'est pas retrouvee clairement", <<>>)
CadreMontantDiffere(cadre_amount, prime_str) == Problem("CADRE", "le montant de prime ne correspond pas a la prime CEE saisie", <<cadre_amount, prime_str>>)
CadreMontantIllisible == Problem("CADRE", "impossible d'interpreter le montant de prime dans le cadre", <<>>)
CadreMontantInexploitable == Problem("CADRE", "la phrase avec le montant de prime n'est pas clairement exploitable", <<>>)
CadrePrimeNonNumerique(prime_str) == Problem("CADRE", "la prime CEE saisie n'est pas interpretable en montant numerique", <<prime_str>>)
CadreDateDiffere == Problem("CADRE", "la Date de cette proposition ne correspond pas a la date de devis", <<>>)
CadreDateAbsente == Problem("CADRE", "la mention Date de cette proposition n'a pas ete retrouvee clairement", <<>>)
CadreAbsent == Problem("CADRE", "aucun document dont le nom contient 'CADRE' n'a ete trouve", <<>>)

FactureResteAPayer == Problem("FACTURE", "la mention Reste a payer 0,00 n'est pas retrouvee clairement", <<>>)
FactureAbsent == Problem("FACTURE", "aucun document dont le nom contient 'FACTURE' n'a ete trouve", <<>>)

BLDateDiffere(date_bl, date_facture) == Problem("BON DE LIVRAISON", "la date du BL est differente de la date de facture", <<date_bl, date_facture>>)
BLAbsent == Problem("BON DE LIVRAISON", "aucun document dont le nom contient 'BON DE LIVRAISON' n'a ete trouve", <<>>)

AHMentionIllisible == Problem("AH", "document present mais la mention attestation sur l'honneur n'est pas clairement lisible", <<>>)
AHAbsent == Problem("AH", "aucune attestation sur l'honneur (AH) detectee dans les PDF", <<>>)

AFTDateDiffereFacture(le, date_facture) == Problem("AFT", "la date Le est differente de la date de facture", <<le, date_facture>>)
AFTDateDiffereBL(le, date_bl) == Problem("AFT", "la date Le est differente de la date du bon de livraison", <<le, date_bl>>)
AFTDateAbsente == Problem("AFT", "aucune date de type Le : jj/mm/aaaa n'a ete trouvee clairement", <<>>)
AFTAbsent == Problem("AFT", "aucune attestation de fin de travaux (AFT) detectee dans les PDF", <<>>)

\* [p] if cond else []
When(cond, p) == IF cond THEN <<p>> ELSE <<>>

----------------------------------------------------------------------------
(* 2) DEVIS                                                                *)

\* has_eclairage_ambiance_global
has_eclairage_ambiance_global(dc) ==
    LET targets == <<Val(dc.devis).norm>>
                   \o (IF IsSome(dc.facture) THEN <<Val(dc.facture).norm>> ELSE <<>>)
                   \o (IF IsSome(dc.ah) THEN <<Val(dc.ah).norm>> ELSE <<>>)
    IN  \E i \in DOMAIN targets :
            /\ InText("type d eclairage", targets[i]) \/ InText("type d'eclairage", targets[i])
            /\ InText("eclairage ambiance", targets[i])
            /\ InText("prive", targets[i])

\* 42.0 <= price_val <= 43.0: price_val is float() of two decimals, and
\* rounding to binary64 keeps the order with 42.0 and 43.0, which are exact
PriceInRange(price) == 42000 <= Milli(price) /\ Milli(price) <= 43000

\* 2.c
DevisPrice(devis_norm) ==
    IF ~InText("mise en place de luminaires neufs", devis_norm) THEN <<>>
    ELSE LET m_price == SearchPrice(devis_norm)
         IN  IF m_price = None THEN <<DevisPrixAbsent>>
             ELSE IF float(Val(m_price)).exc THEN <<DevisPrixIllisible>>
             ELSE When(~PriceInRange(Val(m_price)), DevisPrixHorsPlage(Val(m_price)))

debut == [d |-> 1, m |-> 1, y |-> 2024]
fin == [d |-> 28, m |-> 2, y |-> 2024]

\* 2.d with "debut < date_devis < fin"
DevisDate_mut(date_devis) ==
    IF IsSome(date_devis)
    THEN When(~(/\ DateLe(debut, Val(date_devis)) /\ debut # Val(date_devis)
                /\ DateLe(Val(date_devis), fin) /\ fin # Val(date_devis)),
              DevisDateHorsFenetre(Val(date_devis)))
    ELSE <<DevisDateIndeterminee>>

\* 2.d
DevisDate(date_devis) ==
    IF IsSome(date_devis)
    THEN When(~(DateLe(debut, Val(date_devis)) /\ DateLe(Val(date_devis), fin)),
              DevisDateHorsFenetre(Val(date_devis)))
    ELSE <<DevisDateIndeterminee>>

RuleDevis(dc, dt) ==
    IF IsSome(dc.devis)
    THEN LET devis_norm == Val(dc.devis).norm
         IN  When(~SearchHeader(devis_norm), DevisHeader)
             \o When(~has_eclairage_ambiance_global(dc), DevisEclairage)
             \o DevisPrice(devis_norm)
             \o DevisDate(dt.devis)
             \o When(~SearchResteAPayer(devis_norm), DevisResteAPayer)
    ELSE <<DevisAbsent>>

----------------------------------------------------------------------------
(* 3) CADRE DE CONTRIBUTION                                                *)

\* dossier.fields.get("Prime CEE") or ""
PrimeCEE(f) == IF "Prime CEE" \in DOMAIN f THEN f["Prime CEE"] ELSE W("")

\* 3.a, once the phrase is there
CadreAmount(cadre_norm, prime_str) ==
    IF prime_str = W("") THEN <<>>
    ELSE LET prime_val == float(prime_str)
             m_prime == SearchPrime(cadre_norm)
         IN  IF prime_val.exc THEN <<CadrePrimeNonNumerique(prime_str)>>
             ELSE IF m_prime = None THEN <<CadreMontantInexploitable>>
             ELSE LET cadre_val == float(Val(m_prime))
                  IN  IF cadre_val.exc THEN <<CadreMontantIllisible>>
                      ELSE When(ExceedsTolerance(cadre_val.v, prime_val.v),
                                CadreMontantDiffere(Val(m_prime), prime_str))

\* 3.b
\* 3.b with a plain "else" in place of "elif not m_prop"
CadreDate_mut(cadre_norm, date_devis) ==
    LET m_prop == SearchLabeledDate("date de cette proposition", cadre_norm)
        d_prop == IF IsSome(m_prop) /\ IsSome(date_devis)
                  THEN _parse_date(Val(m_prop)) ELSE Ret(None)
    IN  [exc |-> d_prop.exc,
         problems |->
            IF IsSome(m_prop) /\ IsSome(date_devis)
            THEN When(IsSome(d_prop.v) /\ d_prop.v # date_devis, CadreDateDiffere)
            ELSE <<CadreDateAbsente>>]

CadreDate(cadre_norm, date_devis) ==
    LET m_prop == SearchLabeledDate("date de cette proposition", cadre_norm)
        d_prop == IF IsSome(m_prop) /\ IsSome(date_devis)
                  THEN _parse_date(Val(m_prop)) ELSE Ret(None)
    IN  [exc |-> d_prop.exc,
         problems |->
            IF IsSome(m_prop) /\ IsSome(date_devis)
            THEN When(IsSome(d_prop.v) /\ d_prop.v # date_devis, CadreDateDiffere)
            ELSE When(m_prop = None, CadreDateAbsente)]

RuleCadre(dc, dt, prime_str) ==
    IF IsSome(dc.cadre)
    THEN LET cadre_norm == Val(dc.cadre).norm
             date == CadreDate(cadre_norm, dt.devis)
         IN  [exc |-> date.exc,
              problems |->
                 (IF ~InText("une prime d un montant de", cadre_norm)
                  THEN <<CadrePhraseAbsente>>
                  ELSE CadreAmount(cadre_norm, prime_str))
                 \o date.problems]
    ELSE [exc |-> FALSE, problems |-> <<CadreAbsent>>]

----------------------------------------------------------------------------
(* 4) FACTURE, 5) BON DE LIVRAISON, 6) AH, 7) AFT                          *)

\* the balance check reported only next to a frame
RuleFacture_cadre_mut(dc) ==
    IF IsSome(dc.facture)
    THEN When(~SearchResteAPayer(Val(dc.facture).norm) /\ IsSome(dc.cadre), FactureResteAPayer)
    ELSE <<FactureAbsent>>

\* the balance check made outside the "if facture"
RuleFacture_mut(dc) ==
    IF IsSome(dc.facture)
    THEN When(~SearchResteAPayer(Val(dc.facture).norm), FactureResteAPayer)
    ELSE <<FactureAbsent, FactureResteAPayer>>

RuleFacture(dc) ==
    IF IsSome(dc.facture)
    THEN When(~SearchResteAPayer(Val(dc.facture).norm), FactureResteAPayer)
    ELSE <<FactureAbsent>>

\* a comparison that asks for both dates only
RuleBL_mut(dc, dt) ==
    IF IsSome(dc.bl)
    THEN When(IsSome(dt.facture) /\ IsSome(dt.bl),
              BLDateDiffere(Val(dt.bl), Val(dt.facture)))
    ELSE <<BLAbsent>>

RuleBL(dc, dt) ==
    IF IsSome(dc.bl)
    THEN When(IsSome(dt.facture) /\ IsSome(dt.bl) /\ dt.facture # dt.bl,
              BLDateDiffere(Val(dt.bl), Val(dt.facture)))
    ELSE <<BLAbsent>>

RuleAH(dc) ==
    IF IsSome(dc.ah)
    THEN When(/\ ~InText("attestation sur l honneur", Val(dc.ah).norm)
              /\ ~InText("attestation sur l'honneur", Val(dc.ah).norm),
              AHMentionIllisible)
    ELSE <<AHAbsent>>

\* the comparison with the delivery note made only when the invoice agrees
RuleAFT_mut(dc, dt) ==
    IF IsSome(dc.aft)
    THEN LET m_aft == SearchLabeledDate("le", Val(dc.aft).norm)
             d_aft == IF IsSome(m_aft) THEN _parse_date(Val(m_aft)) ELSE Ret(None)
             vs_facture == When(IsSome(d_aft.v) /\ IsSome(dt.facture) /\ d_aft.v # dt.facture,
                                AFTDateDiffereFacture(Val(m_aft), Val(dt.facture)))
         IN  [exc |-> d_aft.exc,
              problems |->
                 IF IsSome(m_aft)
                 THEN IF vs_facture # <<>> THEN vs_facture
                      ELSE When(IsSome(d_aft.v) /\ IsSome(dt.bl) /\ d_aft.v # dt.bl,
                                AFTDateDiffereBL(Val(m_aft), Val(dt.bl)))
                 ELSE <<AFTDateAbsente>>]
    ELSE [exc |-> FALSE, problems |-> <<AFTAbsent>>]

RuleAFT(dc, dt) ==
    IF IsSome(dc.aft)
    THEN LET m_aft == SearchLabeledDate("le", Val(dc.aft).norm)
             d_aft == IF IsSome(m_aft) THEN _parse_date(Val(m_aft)) ELSE Ret(None)
         IN  [exc |-> d_aft.exc,
              problems |->
                 IF IsSome(m_aft)
                 THEN When(IsSome(d_aft.v) /\ IsSome(dt.facture) /\ d_aft.v # dt.facture,
                           AFTDateDiffereFacture(Val(m_aft), Val(dt.facture)))
                      \o When(IsSome(d_aft.v) /\ IsSome(dt.bl) /\ d_aft.v # dt.bl,
                              AFTDateDiffereBL(Val(m_aft), Val(dt.bl)))
                 ELSE <<AFTDateAbsente>>]
    ELSE [exc |-> FALSE, problems |-> <<AFTAbsent>>]

\* a status that tolerates one problem
Status_mut(probs) == IF Len(probs) <= 1 THEN "conforme" ELSE "non_conforme"

\* 8) status
Status(probs) == IF probs = <<>> THEN "conforme" ELSE "non_conforme"

----------------------------------------------------------------------------
(* rules.py and validator.py: the checks around the PDF analysis.          *)

\* not dossier.fields.get(key)
Missing(f, key) == key \notin DOMAIN f \/ f[key] = W("")

\* f"DOC::{d}"
DocKey(d) ==
    CASE d = "devis" -> "DOC::devis"
      [] d = "facture" -> "DOC::facture"
      [] d = "attestation_sur_honneur" -> "DOC::attestation_sur_honneur"
      [] d = "attestation_fin_travaux" -> "DOC::attestation_fin_travaux"
      [] d = "bon_livraison" -> "DOC::bon_livraison"
      [] d = "cadre_contribution" -> "DOC::cadre_contribution"
      [] OTHER -> "DOC::autre"

\* validate_fields, r the rules of the delegataire
validate_fields(f, r) ==
    LET missing_fields == SelectSeq(r.required_fields, LAMBDA k : Missing(f, k))
        missing_docs == SelectSeq(r.required_documents, LAMBDA d : Missing(f, DocKey(d)))
    IN  [status |-> IF missing_fields = <<>> /\ missing_docs = <<>>
                    THEN "conforme" ELSE "non_conforme",
         missing_fields |-> missing_fields,
         missing_documents |-> missing_docs]

PdfScan(name) == Problem("PDF", "ne contient pas de texte exploitable", <<name>>)
PdfVide(name) == Problem("PDF", "est vide ou illisible", <<name>>)

\* 3.a: one problem per file without text
TechProblems(texts) ==
    Concat([i \in DOMAIN texts |->
        IF texts[i].text = <<>>
        THEN <<IF texts[i].size > 0 THEN PdfScan(texts[i].name) ELSE PdfVide(texts[i].name)>>
        ELSE <<>>])

kw_fac_ == <<"f", "a", "c", "_">>
kw_fs_ == <<"f", "s", "_">>
kw_attest == <<"a", "t", "t", "e", "s", "t">>
kw_attestation_sur_l_honneur ==
    <<"a", "t", "t", "e", "s", "t", "a", "t", "i", "o", "n", " ", "s", "u", "r", " ",
      "l", "'", "h", "o", "n", "n", "e", "u", "r">>
kw_fin_de_travaux == <<"f", "i", "n", " ", "d", "e", " ", "t", "r", "a", "v", "a", "u", "x">>
kw_bl == <<"b", "l">>
kw_contribution == <<"c", "o", "n", "t", "r", "i", "b", "u", "t", "i", "o", "n">>

\* the keywords one of which the file name must contain, per document type
DocKeywords(doc_type) ==
    CASE doc_type = "devis" -> {kw_devis}
      [] doc_type = "facture" -> {kw_facture, kw_fac_, kw_fs_}
      [] doc_type = "attestation_sur_honneur" ->
            {kw_attest, kw_aft, kw_attestation_sur_l_honneur}
      [] doc_type = "attestation_fin_travaux" -> {kw_fin_de_travaux, kw_aft}
      [] doc_type = "bon_livraison" -> {kw_bl, kw_livraison}
      [] doc_type = "cadre_contribution" -> {kw_cadre, kw_contribution}
      [] OTHER -> {}

DocMissing(doc_type) == Problem("PDF", "document non detecte dans les PDF deposes", <<doc_type>>)

\* 4) a document type is detected when a file name contains one of its keywords
Detected(doc_type, files) ==
    \E i \in DOMAIN files : \E kw \in DocKeywords(doc_type) :
        Contains(Lower(files[i].name), kw)

\* an unknown document type has no branch: nothing is looked for, nothing reported
UploadedMissingDocs(required_docs, files) ==
    Concat([i \in DOMAIN required_docs |->
        When(DocKeywords(required_docs[i]) # {} /\ ~Detected(required_docs[i], files),
             DocMissing(required_docs[i]))])

\* str.upper() on the names of the model
Upper(d) == CASE d = "homelior" -> "HOMELIOR" [] OTHER -> d

AucunPdf == Problem("PDF", "Aucun PDF fourni pour ce dossier", <<>>)

ChampsManquants(missing_fields) == Problem("CRM", "Champs manquants", missing_fields)
DocumentsManquants(missing_docs) == Problem("CRM", "Documents manquants (d'apres CRM)", missing_docs)

SansDetail == Problem("", "Dossier non conforme sans detail identifie", <<>>)
DossierConforme == Problem("", "Dossier conforme : aucun ecart majeur detecte", <<>>)

\* the PDF problems merged whatever the status of the analysis
Aggregate_mut(fr, tech, missing, pr) ==
    LET all_problems ==
            (IF fr.status # "conforme"
             THEN <<ChampsManquants(fr.missing_fields),
                    DocumentsManquants(fr.missing_documents)>>
             ELSE <<>>)
            \o tech \o missing \o pr.problems
        global_status ==
            IF fr.status # "conforme" \/ tech # <<>> \/ missing # <<>>
               \/ pr.status # "conforme"
            THEN "non_conforme" ELSE "conforme"
    IN  [status |-> global_status, problems |-> all_problems,
         main_reasons |-> <<>>]

\* 6) with the whole problems list as the summary
Aggregate_all_mut(fr, tech, missing, pr) ==
    LET all_problems ==
            (IF fr.status # "conforme"
             THEN <<ChampsManquants(fr.missing_fields),
                    DocumentsManquants(fr.missing_documents)>>
             ELSE <<>>)
            \o tech \o missing
            \o (IF pr.status # "conforme" THEN pr.problems ELSE <<>>)
        global_status ==
            IF fr.status # "conforme" \/ tech # <<>> \/ missing # <<>>
               \/ pr.status # "conforme"
            THEN "non_conforme" ELSE "conforme"
    IN  [status |-> global_status,
         problems |-> all_problems,
         main_reasons |->
            IF global_status = "conforme" THEN <<DossierConforme>>
            ELSE IF all_problems # <<>> THEN all_problems
            ELSE <<SansDetail>>]

\* 6) the global status and the merged problems
Aggregate(fr, tech, missing, pr) ==
    LET all_problems ==
            (IF fr.status # "conforme"
             THEN <<ChampsManquants(fr.missing_fields),
                    DocumentsManquants(fr.missing_documents)>>
             ELSE <<>>)
            \o tech \o missing
            \o (IF pr.status # "conforme" THEN pr.problems ELSE <<>>)
        global_status ==
            IF fr.status # "conforme" \/ tech # <<>> \/ missing # <<>>
               \/ pr.status # "conforme"
            THEN "non_conforme" ELSE "conforme"
    IN  [status |-> global_status,
         problems |-> all_problems,
         main_reasons |->
            IF global_status = "conforme" THEN <<DossierConforme>>
            ELSE IF all_problems # <<>>
            THEN SubSeq(all_problems, 1, IF Len(all_problems) < 5 THEN Len(all_problems) ELSE 5)
            ELSE <<SansDetail>>]

\* app.py:107
IgnoredMsg(names) == Problem("PDF", "Fichiers PDF ignores car vides", names)

\* app.py:73-85: the uploads with content, and the names of the others
Saved(files) == SelectSeq(files, LAMBDA f : f.size > 0)
Ignored(files) ==
    LET e == SelectSeq(files, LAMBDA f : f.size = 0)
    IN  [i \in DOMAIN e |-> e[i].name]

\* app.py:106-122
Answer(res, ignored, drive_url) ==
    LET ignored_msg == IgnoredMsg(ignored)
        seen == \E i \in DOMAIN res.main_reasons : res.main_reasons[i] = ignored_msg
    IN  [status |-> res.status,
         problems |-> IF ignored # <<>> THEN Append(res.problems, ignored_msg)
                      ELSE res.problems,
         main_reasons |-> IF ignored # <<>> /\ ~seen
                          THEN Append(res.main_reasons, ignored_msg)
                          ELSE res.main_reasons,
         drive_url |-> drive_url]

\* what check_pdfs_with_ai can hand back: the model's answer decides the
\* status and the problems; a missing status is read as "non_conforme", a
\* missing problems list as the empty list
AIProblem == Problem("IA", "ecart releve par l'IA", <<>>)
AIResults ==
    {[status |-> st, problems |-> ps] :
        st \in {"conforme", "non_conforme", "a_verifier"}, ps \in {<<>>, <<AIProblem>>}}

----------------------------------------------------------------------------
(* The calls the model makes: bundles and case fields.                     *)

\* files in a bundle
MaxFiles == 6

File(name, text) == [name |-> name, text |-> text, size |-> 1]

n_devis == <<"D", "e", "v", "i", "s", ".", "p", "d", "f">>
n_cadre == <<"c", "a", "d", "r", "e", ".", "p", "d", "f">>
n_facture == <<"f", "a", "c", "t", "u", "r", "e", ".", "p", "d", "f">>
n_bl == <<"b", "o", "n", "_", "d", "e", "_", "l", "i", "v", "r", "a", "i", "s", "o", "n", ".", "p", "d", "f">>
n_ah == <<"A", "H", ".", "p", "d", "f">>
n_aft == <<"a", "f", "t", ".", "p", "d", "f">>
n_notes == <<"n", "o", "t", "e", "s", ".", "p", "d", "f">>

D1 == D(15, 1, 2024)
D2 == D(20, 2, 2024)
D3 == D(12, 3, 2024)
DBad == D(31, 2, 2024)

t_devis_ok == <<W("DEVIS"), R(2024, 4), W("type d eclairage"), W("eclairage ambiance"),
                W("prive"), W("mise en place de luminaires neufs"), A(42, ",", 315, 3),
                W("Reste a payer"), A(0, ",", 0, 2)>>
t_devis_bad == <<W("devis"), W("mise en place de luminaires neufs"), A(45, ".", 0, 2)>>
t_cadre_ok == <<W("une prime d un montant de"), A(2538, ".", 90, 2), W("euros"),
                W("Date de cette proposition"), D1>>
t_cadre_bad == <<W("cadre de contribution"), D3>>
t_facture_ok == <<W("facture"), W("date de facture"), D3, W("devis"), W("du"), D1,
                  W("reste a payer"), A(0, ".", 0, 2)>>
t_facture_bad == <<W("facture"), D2, W("reste a payer"), A(10, ",", 0, 2)>>
t_bl_ok == <<W("bon de livraison"), D3>>
t_bl_other == <<W("bon de livraison"), W("livre"), W("le"), D2>>
t_ah_ok == <<W("attestation sur l honneur")>>
t_ah_bad == <<W("type d'eclairage"), W("eclairage ambiance"), W("prive")>>
t_aft_ok == <<W("fait"), W("Le"), D3>>
t_aft_bad == <<W("attestation de fin de travaux"), D3>>

\* the choices of a slot: no file, or one of the texts under the name
Slot(name, texts) == {<<>>} \cup {<<File(name, t)>> : t \in texts}

\* the bundles that take one choice per slot, in the order of the slots
RECURSIVE Product(_)
Product(slots) ==
    IF slots = <<>> THEN {<<>>}
    ELSE {x \o rest : x \in Head(slots), rest \in Product(Tail(slots))}

Bundles(slots, n) == {b \in Product(slots) : Len(b) <= n}

Fields(prime) == [f \in {"Prime CEE", "N SIRET"} |-> IF f = "Prime CEE" THEN prime ELSE W("")]

\* case fields without the key "Prime CEE"
NoPrime == [f \in {"N SIRET"} |-> W("")]

\* the rules of a delegataire the configuration does not know
NoRules == [required_fields |-> <<>>, required_documents |-> <<>>]

Call(e, b, f, r) ==
    [entry |-> e, pdf_texts |-> b, fields |-> f, recheck |-> r,
     delegataire |-> "HOMELIOR", deleg_rules |-> NoRules]

\* every role with a compliant and a faulty text
MainSlots == <<Slot(n_devis, {t_devis_ok, t_devis_bad}),
               Slot(n_cadre, {t_cadre_ok, t_cadre_bad}),
               Slot(n_facture, {t_facture_ok, t_facture_bad}),
               Slot(n_bl, {t_bl_ok, t_bl_other}),
               Slot(n_ah, {t_ah_ok, t_ah_bad}),
               Slot(n_aft, {t_aft_ok, t_aft_bad}),
               Slot(n_notes, {<<>>})>>

MainCalls ==
    {Call("analyze", b, Fields(p), FALSE) :
        b \in Bundles(MainSlots, MaxFiles), p \in {W(""), A(2538, ",", 90, 2)}}

\* the dates of the frame, the invoice, the delivery note and the certificate
t_cadre_invalid == <<W("date de cette proposition"), DBad, W("signe"), W("le"), D2>>
t_cadre_nodate == <<W("une prime d un montant de"), W("euros")>>
t_cadre_second == <<W("date de cette proposition"), W("voir"), W("date de cette proposition"), D2, D3>>
t_facture_ref == <<W("facture"), D3, W("selon"), W("devis"), W("du"), D2>>
t_facture_digits == <<W("devis"), R(2024, 4), W("du"), D2>>
t_facture_far == <<W("devis"), W("accepte par le client en date"), D2>>
t_facture_near == <<W("devis"), W("accepte par le client a date"), D2>>
t_facture_invalid == <<W("devis"), DBad, W("date de facture"), DBad, D3>>
t_facture_nodate == <<W("reste a payer"), A(0, ",", 0, 3)>>
t_bl_nodate == <<W("bon de livraison")>>
t_aft_invalid == <<W("le"), DBad>>
t_aft_other == <<W("le"), W("le"), D2>>

DateSlots == <<Slot(n_devis, {<<W("devis"), R(2024, 3)>>}),
               Slot(n_cadre, {t_cadre_ok, t_cadre_bad, t_cadre_invalid, t_cadre_nodate,
                              t_cadre_second}),
               Slot(n_facture, {t_facture_ok, t_facture_bad, t_facture_ref, t_facture_digits,
                                t_facture_far, t_facture_near, t_facture_invalid,
                                t_facture_nodate}),
               Slot(n_bl, {t_bl_ok, t_bl_nodate}),
               Slot(n_aft, {t_aft_ok, t_aft_invalid, t_aft_other, <<>>})>>

DateCalls ==
    {Call("analyze", b, Fields(W("")), FALSE) : b \in Bundles(DateSlots, MaxFiles)}

\* the amount of the frame against the case field
t_cadre_amount(amount) ==
    <<W("une prime d un montant de"), amount, W("euros"),
      W("date de cette proposition"), DBad>>

CadreAmounts == {A(2538, ".", 91, 2), A(2538, ",", 900, 3), A(1, ".", 1, 2), A(1, ",", 0, 2),
                 A(0, ".", 30, 2), A(100, ".", 19, 3), W("euros")}

PrimeStrings == {W(""), W("abc"), D1, A(2538, ",", 90, 2), A(2538, ".", 899, 3),
                 A(1, "", 0, 0), A(1, ".", 1, 2), A(1, ".", 11, 3), A(0, ",", 29, 2),
                 A(0, ".", 311, 3), A(100, ".", 0, 1), A(100, ".", 2, 2)}

AmountCalls ==
    {Call("analyze", <<File(n_cadre, t_cadre_amount(a))>>, f, FALSE) :
        a \in CadreAmounts, f \in {Fields(p) : p \in PrimeStrings} \cup {NoPrime}}

\* bundles evaluated twice: a file on two roles, two files on one role
n_facture_bl == <<"f", "a", "c", "t", "u", "r", "e", "_", "b", "o", "n", "_",
                  "l", "i", "v", "r", "a", "i", "s", "o", "n", ".", "p", "d", "f">>
n_facture2 == <<"f", "a", "c", "t", "u", "r", "e", "2", ".", "p", "d", "f">>

RecheckSlots == <<Slot(n_devis, {t_devis_bad}), Slot(n_cadre, {t_cadre_ok, t_cadre_bad}),
                  Slot(n_facture_bl, {t_facture_bad}), Slot(n_facture, {t_facture_ok}),
                  Slot(n_facture2, {t_ah_bad}), Slot(n_bl, {t_bl_other}),
                  Slot(n_ah, {t_ah_ok}), Slot(n_aft, {t_aft_ok, t_aft_other})>>

RecheckCalls ==
    {Call("analyze", b, Fields(W("")), TRUE) : b \in Bundles(RecheckSlots, MaxFiles)}

\* a bundle of devis.pdf alone, without header and without date
n_devis_pdf == <<"d", "e", "v", "i", "s", ".", "p", "d", "f">>

\* an invoice and a delivery note of 12/03/2024; the invoice with and
\* without a "date de facture" of another day
t_facture_b == <<W("facture"), D3, W("reste a payer"), A(0, ",", 0, 2)>>
t_facture_labeled == <<W("facture"), W("livraison du"), D3, W("date de facture"), D(14, 3, 2024),
                       W("reste a payer"), A(0, ",", 0, 2)>>

\* the days around the two ends of the quote window
WindowEdges == {D(31, 12, 2023), D(1, 1, 2024), D(28, 2, 2024), D(29, 2, 2024)}

ScenarioCalls ==
    {Call("analyze", <<File(n_devis_pdf, t)>>, Fields(W("")), FALSE) :
        t \in {t_devis_bad, <<W("devis"), R(2024, 3)>>, <<W("devis")>>, <<>>}}
    \cup {Call("analyze", <<File(n_devis_pdf, t_devis_bad),
                               File(n_cadre, <<W("date de cette proposition"), e>>)>>,
                   Fields(W("")), FALSE) : e \in WindowEdges}
    \cup {Call("analyze", <<File(n_facture, t), File(n_bl, t_bl_ok)>>, Fields(W("")), FALSE) :
            t \in {t_facture_b, t_facture_labeled}}

\* a file named by the second keyword set, before and after one named by
\* the first set, and alone
n_attestation_honneur ==
    <<"a", "t", "t", "e", "s", "t", "a", "t", "i", "o", "n", "_", "h", "o", "n", "n", "e", "u", "r",
      ".", "p", "d", "f">>
n_fin_travaux == <<"f", "i", "n", "_", "t", "r", "a", "v", "a", "u", "x", ".", "p", "d", "f">>

PriorityBundles ==
    LET Orders(x, y) == {<<x>>, <<x, y>>, <<y, x>>}
    IN  Orders(File(n_attestation_honneur, t_ah_bad), File(n_ah, t_ah_ok))
        \cup Orders(File(n_fin_travaux, t_aft_other), File(n_aft, t_aft_ok))
        \cup {<<File(n_fin_travaux, t_aft_other), File(n_attestation_honneur, t_ah_bad),
                File(n_aft, t_aft_ok), File(n_ah, t_ah_ok)>>}

PriorityCalls == {Call("analyze", b, Fields(W("")), FALSE) : b \in PriorityBundles}

\* one file whose name says "attest" and "aft"
n_attest_aft == <<"a", "t", "t", "e", "s", "t", "_", "a", "f", "t", ".", "p", "d", "f">>
n_attestation_honneur_aft ==
    <<"A", "t", "t", "e", "s", "t", "a", "t", "i", "o", "n", "_", "h", "o", "n", "n", "e", "u", "r",
      "_", "A", "F", "T", ".", "p", "d", "f">>

OverlapBundles ==
    {<<File(n, t)>> : n \in {n_attest_aft, n_attestation_honneur_aft},
                      t \in {t_aft_ok, t_ah_ok}}

OverlapCalls == {Call("analyze", b, Fields(W("")), FALSE) : b \in OverlapBundles}

\* file names that the presence detection of validate_dossier accepts
n_fac_ == <<"F", "A", "C", "_", "1", ".", "p", "d", "f">>
n_bl_short == <<"b", "l", ".", "p", "d", "f">>
n_contribution == <<"c", "o", "n", "t", "r", "i", "b", "u", "t", "i", "o", "n", ".", "p", "d", "f">>
n_fin_de_travaux ==
    <<"F", "i", "n", " ", "d", "e", " ", "t", "r", "a", "v", "a", "u", "x", ".", "p", "d", "f">>

\* validate_dossier: the bundle, the case fields, the delegataire and what
\* config/rules.json holds for it
ValidateBundles ==
    OverlapBundles \cup
    {<<>>,
     <<File(n_devis, t_devis_ok), File(n_cadre, t_cadre_ok), File(n_facture, t_facture_ok),
       File(n_bl, t_bl_ok), File(n_ah, t_ah_ok), File(n_aft, t_aft_ok)>>,
     <<File(n_devis, t_devis_ok), File(n_cadre, t_cadre_ok), File(n_facture, t_facture_ok),
       File(n_bl, t_bl_ok), File(n_ah, t_ah_ok), File(n_aft, t_aft_ok),
       [File(n_notes, <<>>) EXCEPT !.size = 0]>>,
     <<File(n_devis, t_devis_bad), File(n_notes, <<>>)>>,
     <<File(n_notes, <<W("notes")>>)>>,
     <<File(n_devis, t_devis_ok), File(n_contribution, t_cadre_ok), File(n_fac_, t_facture_ok),
       File(n_bl_short, t_bl_ok), File(n_fin_de_travaux, t_aft_ok)>>,
     <<File(n_fin_de_travaux, t_aft_ok)>>}

ValidateFields ==
    {Fields(A(2538, ",", 90, 2)),
     NoPrime,
     [f \in {"Prime CEE", "DOC::devis", "DOC::facture"} |-> A(1, "", 0, 0)]}

ValidateRules ==
    {[required_fields |-> rf, required_documents |-> rd] :
        rf \in {<<>>, <<"Prime CEE">>},
        rd \in {<<>>, <<"devis", "facture">>,
                <<"devis", "facture", "attestation_sur_honneur", "attestation_fin_travaux",
                  "bon_livraison", "cadre_contribution", "kbis">>}}

ValidateCalls ==
    {[entry |-> "validate", pdf_texts |-> b, fields |-> f, recheck |-> FALSE,
      delegataire |-> d, deleg_rules |-> r] :
        b \in ValidateBundles, f \in ValidateFields,
        d \in {"HOMELIOR", "homelior", "AUTRE"}, r \in ValidateRules}

\* the /analyze handler: uploads of which some have no content
Empty(name) == [File(name, <<>>) EXCEPT !.size = 0]

Dossier6 ==
    <<File(n_devis, t_devis_ok), File(n_cadre, t_cadre_ok), File(n_facture, t_facture_ok),
      File(n_bl, t_bl_ok), File(n_ah, t_ah_ok), File(n_aft, t_aft_ok)>>

HandlerUploads ==
    {Dossier6,
     Dossier6 \o <<Empty(n_notes)>>,
     <<Empty(n_notes)>> \o Dossier6 \o <<Empty(n_devis_pdf)>>,
     <<Empty(n_notes), Empty(n_devis_pdf)>>,
     <<File(n_devis, t_devis_bad), Empty(n_notes)>>,
     <<File(n_devis, t_devis_bad), File(n_notes, <<>>)>>}

HandlerCalls ==
    {[entry |-> "handler", pdf_texts |-> b, fields |-> f, recheck |-> FALSE,
      delegataire |-> d, deleg_rules |-> r] :
        b \in HandlerUploads, f \in {Fields(A(2538, ",", 90, 2)), Fields(W(""))},
        d \in {"HOMELIOR", "AUTRE"}, r \in ValidateRules}

Calls == MainCalls \cup DateCalls \cup AmountCalls \cup RecheckCalls \cup OverlapCalls
         \cup ScenarioCalls
         \cup PriorityCalls
         \cup ValidateCalls
         \cup HandlerCalls

----------------------------------------------------------------------------
(* The state machine.                                                      *)

\* the state of validate_dossier around the PDF analysis
vvars == <<delegataire, deleg_rules, field_result, tech_problems, uploaded_missing_docs,
           pdf_result, result>>

\* the state of the /analyze handler
hvars == <<ignored_files, response>>

\* the state of analyze_homelior
avars == <<docs, dates, problems, verdict, raised, recheck, prev>>

vars == <<entry, pdf_texts, fields, pc, docs, dates, problems, verdict, raised,
          recheck, prev, vvars, hvars>>

Init ==
    \E c \in Calls :
        /\ entry = c.entry
        /\ pdf_texts = c.pdf_texts
        /\ fields = c.fields
        /\ recheck = c.recheck
        /\ delegataire = c.delegataire
        /\ deleg_rules = c.deleg_rules
        /\ field_result = None
        /\ tech_problems = <<>>
        /\ uploaded_missing_docs = <<>>
        /\ pdf_result = None
        /\ result = None
        /\ ignored_files = <<>>
        /\ response = None
        /\ pc = CASE c.entry = "analyze" -> "classify"
                  [] c.entry = "validate" -> "v_fields"
                  [] c.entry = "handler" -> "h_save"
        /\ docs = NoDocs
        /\ dates = NoDates
        /\ problems = <<>>
        /\ verdict = None
        /\ raised = FALSE
        /\ prev = None

\* a step that puts its problems in front of the list
Step_mut(at, to, r) ==
    /\ pc = at
    /\ IF r.exc
       THEN /\ pc' = "raised"
            /\ raised' = TRUE
            /\ UNCHANGED <<dates, problems>>
       ELSE /\ pc' = to
            /\ dates' = r.dates
            /\ problems' = r.problems \o problems
            /\ UNCHANGED raised
    /\ UNCHANGED <<hvars, entry, pdf_texts, fields, docs, verdict, recheck, prev, vvars>>

\* a step of analyze_homelior from pc = at to pc = to, r what it computed
Step(at, to, r) ==
    /\ pc = at
    /\ IF r.exc
       THEN /\ pc' = "raised"
            /\ raised' = TRUE
            /\ UNCHANGED <<dates, problems>>
       ELSE /\ pc' = to
            /\ dates' = r.dates
            /\ problems' = problems \o r.problems
            /\ UNCHANGED raised
    /\ UNCHANGED <<hvars, entry, pdf_texts, fields, docs, verdict, recheck, prev, vvars>>

DateStep(r) == [exc |-> r.exc, dates |-> r.dates, problems |-> <<>>]
RuleStep(r) == [exc |-> r.exc, dates |-> dates, problems |-> r.problems]
Pure(ps) == [exc |-> FALSE, problems |-> ps]

ClassifyDocs ==
    /\ pc = "classify"
    /\ docs' = Classify(pdf_texts)
    /\ pc' = "dates_cadre"
    /\ UNCHANGED <<hvars, entry, pdf_texts, fields, dates, problems, verdict, raised, recheck, prev,
                   vvars>>

ResolveDatesCadre == Step("dates_cadre", "dates_facture", DateStep(DatesCadre(docs, dates)))
ResolveDatesFacture == Step("dates_facture", "dates_fallback", DateStep(DatesFacture(docs, dates)))
ResolveDatesFallback == Step("dates_fallback", "dates_bl", DateStep(DatesFallback(docs, dates)))
ResolveDatesBL == Step("dates_bl", "devis", DateStep(DatesBL(docs, dates)))
CheckDevis == Step("devis", "cadre", RuleStep(Pure(RuleDevis(docs, dates))))
CheckCadre == Step("cadre", "facture", RuleStep(RuleCadre(docs, dates, PrimeCEE(fields))))
CheckFacture == Step("facture", "bl", RuleStep(Pure(RuleFacture(docs))))
CheckBL == Step("bl", "ah", RuleStep(Pure(RuleBL(docs, dates))))
CheckAH == Step("ah", "aft", RuleStep(Pure(RuleAH(docs))))
CheckAFT == Step("aft", "status", RuleStep(RuleAFT(docs, dates)))

\* lines 430-435: the verdict goes back to the caller
Return ==
    /\ pc = "status"
    /\ verdict' = Some([status |-> Status(problems), problems |-> problems])
    /\ pc' = "done"
    /\ UNCHANGED <<hvars, entry, pdf_texts, fields, docs, dates, problems, raised, recheck, prev,
                   vvars>>

\* the caller removes one file of the bundle and evaluates again
Remove ==
    /\ pc = "done"
    /\ recheck
    /\ prev = None
    /\ \E i \in DOMAIN pdf_texts :
        /\ prev' = Some([removed |-> pdf_texts[i].name, docs |-> docs, verdict |-> Val(verdict)])
        /\ pdf_texts' = SubSeq(pdf_texts, 1, i - 1) \o SubSeq(pdf_texts, i + 1, Len(pdf_texts))
    /\ pc' = "classify"
    /\ docs' = NoDocs
    /\ dates' = NoDates
    /\ problems' = <<>>
    /\ verdict' = None
    /\ UNCHANGED <<hvars, entry, fields, raised, recheck, vvars>>

\* validator.py:25
CheckFields ==
    /\ pc = "v_fields"
    /\ field_result' = Some(validate_fields(fields, deleg_rules))
    /\ pc' = "v_read"
    /\ UNCHANGED <<hvars, entry, pdf_texts, fields, avars, delegataire, deleg_rules, tech_problems,
                   uploaded_missing_docs, pdf_result, result>>

\* validator.py:28-47
DetectEmptyFiles ==
    /\ pc = "v_read"
    /\ tech_problems' = TechProblems(pdf_texts)
    /\ pc' = "v_presence"
    /\ UNCHANGED <<hvars, entry, pdf_texts, fields, avars, delegataire, deleg_rules, field_result,
                   uploaded_missing_docs, pdf_result, result>>

\* validator.py:49-122
DetectDocuments ==
    /\ pc = "v_presence"
    /\ uploaded_missing_docs' = UploadedMissingDocs(deleg_rules.required_documents, pdf_texts)
    /\ pc' = "v_pdf"
    /\ UNCHANGED <<hvars, entry, pdf_texts, fields, avars, delegataire, deleg_rules, field_result,
                   tech_problems, pdf_result, result>>

\* validator.py:128-129: HOMELIOR goes to the rules in Python
CallAnalyze ==
    /\ pc = "v_pdf"
    /\ pdf_texts # <<>>
    /\ Upper(delegataire) = "HOMELIOR"
    /\ pc' = "classify"
    /\ UNCHANGED <<hvars, entry, pdf_texts, fields, avars, vvars>>

\* validator.py:129: the verdict of analyze_homelior is the PDF result
AnalyzeReturned ==
    /\ pc = "done"
    /\ entry \in {"validate", "handler"}
    /\ pdf_result' = verdict
    /\ pc' = "v_aggregate"
    /\ UNCHANGED <<hvars, entry, pdf_texts, fields, avars, delegataire, deleg_rules, field_result,
                   tech_problems, uploaded_missing_docs, result>>

\* validator.py:130-131: any other delegataire goes to the AI checker
CallAI ==
    /\ pc = "v_pdf"
    /\ pdf_texts # <<>>
    /\ Upper(delegataire) # "HOMELIOR"
    /\ \E r \in AIResults : pdf_result' = Some(r)
    /\ pc' = "v_aggregate"
    /\ UNCHANGED <<hvars, entry, pdf_texts, fields, avars, delegataire, deleg_rules, field_result,
                   tech_problems, uploaded_missing_docs, result>>

\* validator.py:132-136
NoPdf ==
    /\ pc = "v_pdf"
    /\ pdf_texts = <<>>
    /\ pdf_result' = Some([status |-> "non_conforme", problems |-> <<AucunPdf>>])
    /\ pc' = "v_aggregate"
    /\ UNCHANGED <<hvars, entry, pdf_texts, fields, avars, delegataire, deleg_rules, field_result,
                   tech_problems, uploaded_missing_docs, result>>

\* validator.py:138-181
AggregateResult ==
    /\ pc = "v_aggregate"
    /\ result' = Some(Aggregate(Val(field_result), tech_problems, uploaded_missing_docs,
                                Val(pdf_result)))
    /\ pc' = "v_done"
    /\ UNCHANGED <<hvars, entry, pdf_texts, fields, avars, delegataire, deleg_rules, field_result,
                   tech_problems, uploaded_missing_docs, pdf_result>>

\* app.py:72-101: the uploads with content are saved and make the dossier,
\* the names of the others are kept
SaveFiles ==
    /\ pc = "h_save"
    /\ pdf_texts' = Saved(pdf_texts)
    /\ ignored_files' = Ignored(pdf_texts)
    /\ pc' = "v_fields"
    /\ UNCHANGED <<entry, fields, avars, vvars, response>>

\* app.py:104-122: the result of validate_dossier, the ignored files added,
\* and the link of the export, None when the export failed
Respond ==
    /\ pc = "v_done"
    /\ entry = "handler"
    /\ \E drive_url \in {None, Some("url")} :
            response' = Some(Answer(Val(result), ignored_files, drive_url))
    /\ pc' = "h_done"
    /\ UNCHANGED <<entry, pdf_texts, fields, avars, vvars, ignored_files>>

\* a second call that finds the problems list of the first
CallAgain_mut ==
    /\ pc = "done"
    /\ recheck
    /\ prev = None
    /\ prev' = Some([removed |-> <<>>, docs |-> docs, verdict |-> Val(verdict)])
    /\ pc' = "classify"
    /\ docs' = NoDocs
    /\ dates' = NoDates
    /\ verdict' = None
    /\ UNCHANGED <<hvars, entry, pdf_texts, fields, problems, raised, recheck, vvars>>

\* the caller evaluates the same bundle with the same case fields again:
\* problems, the documents and the dates are locals of the call (lines
\* 85-107), made anew
CallAgain ==
    /\ pc = "done"
    /\ recheck
    /\ prev = None
    /\ prev' = Some([removed |-> <<>>, docs |-> docs, verdict |-> Val(verdict)])
    /\ pc' = "classify"
    /\ docs' = NoDocs
    /\ dates' = NoDates
    /\ problems' = <<>>
    /\ verdict' = None
    /\ UNCHANGED <<hvars, entry, pdf_texts, fields, raised, recheck, vvars>>

Next ==
    \/ CheckFields
    \/ DetectEmptyFiles
    \/ DetectDocuments
    \/ CallAnalyze
    \/ AnalyzeReturned
    \/ CallAI
    \/ NoPdf
    \/ AggregateResult
    \/ ClassifyDocs
    \/ ResolveDatesCadre
    \/ ResolveDatesFacture
    \/ ResolveDatesFallback
    \/ ResolveDatesBL
    \/ CheckDevis
    \/ CheckCadre
    \/ CheckFacture
    \/ CheckBL
    \/ CheckAH
    \/ CheckAFT
    \/ Return
    \/ Remove
    \/ CallAgain
    \/ SaveFiles
    \/ Respond

Spec == Init /\ [][Next]_vars


----------------------------------------------------------------------------
(* The claims.                                                             *)

\* every verdict returned so far: the current one and the one before a removal
Verdicts == (IF IsSome(verdict) THEN {Val(verdict)} ELSE {})
            \cup (IF IsSome(prev) THEN {Val(prev).verdict} ELSE {})

Has(probs, p) == \E i \in DOMAIN probs : probs[i] = p

\* C1: a verdict returned by analyze_homelior has status "non_conforme" iff
\* its problems list is non-empty, and "conforme" iff the list is empty.
C1_StatusIffProblems ==
    \A v \in Verdicts :
        /\ v.status = "non_conforme" <=> v.problems # <<>>
        /\ v.status = "conforme" <=> v.problems = <<>>

\* a verdict was returned with no problem at all, on a bundle of six files
C1_Witness ==
    /\ pc = "done"
    /\ Val(verdict).status = "conforme"
    /\ Val(verdict).problems = <<>>
    /\ Len(pdf_texts) >= 6

Roles == {"devis", "cadre", "facture", "bl", "ah", "aft"}

\* the role a problem message starts with
RoleTag(r) ==
    CASE r = "devis" -> "DEVIS" [] r = "cadre" -> "CADRE" [] r = "facture" -> "FACTURE"
      [] r = "bl" -> "BON DE LIVRAISON" [] r = "ah" -> "AH" [] r = "aft" -> "AFT"

\* the "no document found" problem of a role
Absent(r) ==
    CASE r = "devis" -> DevisAbsent [] r = "cadre" -> CadreAbsent
      [] r = "facture" -> FactureAbsent [] r = "bl" -> BLAbsent
      [] r = "ah" -> AHAbsent [] r = "aft" -> AFTAbsent

OfRole(probs, tag) == SelectSeq(probs, LAMBDA p : p.role = tag)

\* C3: a role no file is classified into contributes exactly one problem,
\* its "no document found" problem, and no other problem of that role.
C3_AbsentRoleOneProblem ==
    pc = "done" =>
        \A r \in Roles :
            docs[r] = None => OfRole(Val(verdict).problems, RoleTag(r)) = <<Absent(r)>>

\* no invoice, while the certificate is there and disagrees with the delivery note
C3_Witness ==
    /\ pc = "done"
    /\ docs.facture = None
    /\ IsSome(docs.aft)
    /\ Has(Val(verdict).problems, FactureAbsent)
    /\ \E p \in {Val(verdict).problems[i] : i \in DOMAIN Val(verdict).problems} :
            p.role = "AFT" /\ p # AFTAbsent

\* C4 (as claimed): a sub-check of a present document that cannot be decided
\* leaves an explicit problem: the quote without the line-item phrase, the
\* frame amount with an empty Prime CEE, the delivery note without both dates.
C4_NoSilentSkip ==
    pc = "done" =>
        LET ps == Val(verdict).problems
            msgs(tag) == {ps[i].msg : i \in {j \in DOMAIN ps : ps[j].role = tag}}
        IN  /\ (IsSome(docs.devis)
                    /\ ~InText("mise en place de luminaires neufs", Val(docs.devis).norm))
                => msgs("DEVIS") \cap {DevisPrixAbsent.msg, DevisPrixIllisible.msg} # {}
            /\ (IsSome(docs.cadre)
                    /\ InText("une prime d un montant de", Val(docs.cadre).norm)
                    /\ PrimeCEE(fields) = W(""))
                => msgs("CADRE") \cap {CadreMontantInexploitable.msg, CadreMontantIllisible.msg,
                                       CadrePrimeNonNumerique(W("")).msg} # {}
            /\ (IsSome(docs.bl) /\ (dates.bl = None \/ dates.facture = None))
                => msgs("BON DE LIVRAISON") # {}

\* the valid date of a match, None without a match or with an invalid date
ValidDate(m) == IF IsSome(m) THEN _parse_date(Val(m)).v ELSE None

FirstOf(os) ==
    LET I == {i \in DOMAIN os : IsSome(os[i])}
    IN  IF I = {} THEN None ELSE os[Least(I)]

\* the four steps of the quote-date resolution, each on its own
QuoteDateSteps ==
    LET cadre_norm == Val(docs.cadre).norm
        fac_norm == Val(docs.facture).norm
    IN  <<IF IsSome(docs.cadre)
          THEN ValidDate(SearchLabeledDate("date de cette proposition", cadre_norm)) ELSE None,
          IF IsSome(docs.facture) THEN ValidDate(SearchDevisDate(fac_norm)) ELSE None,
          IF IsSome(docs.cadre) THEN ValidDate(_find_date_any(cadre_norm)) ELSE None,
          IF IsSome(docs.facture) THEN ValidDate(_find_date_any(fac_norm)) ELSE None>>

AnalyzeOrder == <<"classify", "dates_cadre", "dates_facture", "dates_fallback", "dates_bl",
                  "devis", "cadre", "facture", "bl", "ah", "aft", "status", "done">>

\* the positions of analyze_homelior after position p
After(p) ==
    {AnalyzeOrder[i] : i \in {j \in DOMAIN AnalyzeOrder :
                                \E k \in DOMAIN AnalyzeOrder : AnalyzeOrder[k] = p /\ k < j}}

\* C5: date_devis is the result of the first step that succeeds, in the order
\* frame label, invoice "devis ... date", first date of the frame, first date
\* of the invoice; a later step never changes it; a frame label D1 wins over
\* an invoice reference D2.
C5_FirstStepWins ==
    /\ pc \in After("dates_cadre") =>
            (IsSome(QuoteDateSteps[1]) => dates.devis = QuoteDateSteps[1])
    /\ pc \in After("dates_facture") =>
            (IsSome(FirstOf(SubSeq(QuoteDateSteps, 1, 2)))
                => dates.devis = FirstOf(SubSeq(QuoteDateSteps, 1, 2)))
    /\ pc \in After("dates_fallback") => dates.devis = FirstOf(QuoteDateSteps)

\* a frame labeled D1 with an invoice that refers to a quote of D2, resolved to D1
C5_Witness ==
    /\ pc = "done"
    /\ IsSome(QuoteDateSteps[1])
    /\ IsSome(QuoteDateSteps[2])
    /\ QuoteDateSteps[1] # QuoteDateSteps[2]
    /\ dates.devis = QuoteDateSteps[1]

\* the frame amount captured after the phrase, None if there is none
FrameAmount == IF IsSome(docs.cadre) THEN SearchPrime(Val(docs.cadre).norm) ELSE None

AbsInt(x) == IF x < 0 THEN -x ELSE x

HasMismatch(probs) == \E i \in DOMAIN probs : probs[i].msg = CadreMontantDiffere(0, 0).msg

\* C6 (as claimed): with a frame amount and a numeric Prime CEE, a difference
\* of exactly 0.01 gives no amount-mismatch problem and a difference of 0.011
\* gives one (amounts in thousandths).
C6_ToleranceBoundary ==
    (pc = "done" /\ IsSome(FrameAmount) /\ PrimeCEE(fields).k = "amt") =>
        LET diff == AbsInt(Milli(Val(FrameAmount)) - Milli(PrimeCEE(fields)))
        IN  /\ diff = 10 => ~HasMismatch(Val(verdict).problems)
            /\ diff = 11 => HasMismatch(Val(verdict).problems)

\* scenario C: Prime CEE "2538,90", cadre.pdf with "... de 2538.91 euros"
C7_Scenario ==
    /\ pc = "done"
    /\ PrimeCEE(fields) = A(2538, ",", 90, 2)
    /\ \E i \in DOMAIN pdf_texts :
        /\ pdf_texts[i].name = n_cadre
        /\ \E j \in 1..(Len(pdf_texts[i].text) - 2) :
            SubSeq(pdf_texts[i].text, j, j + 2)
                = <<W("une prime d un montant de"), A(2538, ".", 91, 2), W("euros")>>

\* C7 (as claimed): scenario C yields the amount-mismatch problem.
C7_ScenarioMismatch == C7_Scenario => HasMismatch(Val(verdict).problems)

\* C7 (amended): scenario C yields no amount-mismatch problem: 0.01 is within
\* the tolerance.
C7_ScenarioWithinTolerance == C7_Scenario => ~HasMismatch(Val(verdict).problems)

C7_Witness == C7_Scenario /\ IsSome(FrameAmount) /\ Val(FrameAmount) = A(2538, ".", 91, 2)

ValidateOrder == {"v_fields", "v_read", "v_presence", "v_pdf", "v_aggregate", "v_done"}

\* the positions of the /analyze handler around validate_dossier
HandlerOrder == {"h_save", "h_done"}

\* C9: analyze_homelior never ends in an error state, whatever the texts and
\* the case fields: it is always at one of its steps, each of which goes on
\* whatever it reads, or it has returned a verdict that holds a status and a
\* problems list.
C9_NeverRaises ==
    /\ ~raised
    /\ pc \in {AnalyzeOrder[i] : i \in DOMAIN AnalyzeOrder} \cup ValidateOrder
                \cup HandlerOrder
    /\ pc = "done" =>
        /\ IsSome(verdict)
        /\ DOMAIN Val(verdict) = {"status", "problems"}
        /\ Val(verdict).status \in {"conforme", "non_conforme"}
        /\ DOMAIN Val(verdict).problems = 1..Len(Val(verdict).problems)

\* returned on a frame with an invalid labeled date and a Prime CEE that is no number
C9_Witness ==
    /\ pc = "done"
    /\ IsSome(verdict)
    /\ PrimeCEE(fields) = W("abc")
    /\ IsSome(docs.cadre)
    /\ SearchLabeledDate("date de cette proposition", Val(docs.cadre).norm) = Some(DBad)
    /\ Has(Val(verdict).problems, CadrePrimeNonNumerique(W("abc")))

\* C10 (as claimed): a date that matches its pattern but is no calendar date
\* is reported like a date that is not found.
C10_InvalidLikeAbsent ==
    pc = "done" =>
        /\ (/\ IsSome(docs.aft)
            /\ IsSome(SearchLabeledDate("le", Val(docs.aft).norm))
            /\ ValidDate(SearchLabeledDate("le", Val(docs.aft).norm)) = None)
            => Has(Val(verdict).problems, AFTDateAbsente)
        /\ (/\ IsSome(docs.cadre)
            /\ IsSome(SearchLabeledDate("date de cette proposition", Val(docs.cadre).norm))
            /\ ValidDate(SearchLabeledDate("date de cette proposition", Val(docs.cadre).norm)) = None)
            => Has(Val(verdict).problems, CadreDateAbsente)

\* the roles the removed file occupied in the evaluation before
Removed ==
    {r \in Roles : /\ IsSome(Val(prev).docs[r])
                   /\ Val(Val(prev).docs[r]).name = Val(prev).removed}

\* a file was removed from the bundle of a returned verdict and the rest
\* has been evaluated
Reevaluated == pc = "done" /\ IsSome(prev) /\ Removed # {}

\* (a): the role the file occupied is reported as not found when no file is left for it
NotFoundReported ==
    \A r \in Removed : docs[r] = None => Has(Val(verdict).problems, Absent(r))

\* a problem of another role that the code computes from the removed file:
\* a comparison with a date read from it, or a check that reads the file
\* which takes its role over
ComputedFrom(p) ==
    \/ /\ p.msg = DevisDateHorsFenetre(0).msg
       /\ Removed \cap {"cadre", "facture"} # {}
    \/ /\ p = DevisDateIndeterminee
       /\ \E r \in Removed \cap {"cadre", "facture"} : IsSome(docs[r])
    \/ /\ p.msg \in {BLDateDiffere(0, 0).msg, AFTDateDiffereFacture(0, 0).msg}
       /\ "facture" \in Removed
    \/ /\ p.msg = AFTDateDiffereBL(0, 0).msg
       /\ "bl" \in Removed
    \/ /\ p = DevisEclairage
       /\ \E r \in Removed \cap {"facture", "ah"} : IsSome(docs[r])

OtherRoleProblems ==
    LET old == Val(prev).verdict.problems
    IN  {old[i] : i \in {j \in DOMAIN old : \A r \in Removed : old[j].role # RoleTag(r)}}

\* C8 (as claimed): after the removal of the file of role R, the verdict
\* holds the "not found" problem of R when no file is left for R, and
\* every problem the verdict before held for another role.
C8_AbsenceMonotone ==
    Reevaluated =>
        /\ NotFoundReported
        /\ \A p \in OtherRoleProblems : Has(Val(verdict).problems, p)

\* C8 (amended): after the removal of the file of role R, the verdict holds
\* the "not found" problem of R when no file is left for R, and every problem
\* the verdict before held for another role, except those computed from the
\* removed file: the date comparisons with a date read from it and the
\* checks that read the file which takes its role over.
C8_AbsenceMonotoneButDates ==
    Reevaluated =>
        /\ NotFoundReported
        /\ \A p \in OtherRoleProblems : Has(Val(verdict).problems, p) \/ ComputedFrom(p)

\* the frame is removed: its "not found" problem comes, the invoice's problem stays
C8_Witness ==
    /\ Reevaluated
    /\ Removed = {"cadre"}
    /\ docs.cadre = None
    /\ Has(Val(prev).verdict.problems, FactureResteAPayer)
    /\ Has(Val(verdict).problems, FactureResteAPayer)
    /\ Has(Val(verdict).problems, CadreAbsent)
    /\ ~Has(Val(prev).verdict.problems, CadreAbsent)

\* validate_dossier has returned
Validated == pc = "v_done" /\ IsSome(result)

\* C2 (as claimed): the overall status of validate_dossier is "non_conforme"
\* if and only if the merged problems list is non-empty.
C2_StatusIffMerged ==
    Validated => (Val(result).status = "non_conforme" <=> Val(result).problems # <<>>)

\* C2 (amended): a non-empty merged list comes with "non_conforme"; the
\* status is "non_conforme" with an empty merged list exactly when nothing
\* but the PDF analysis objects and it gives a status other than "conforme"
\* with no problem, which only the AI checker does; the status is
\* "conforme" or "non_conforme".
C2_StatusAndMerged ==
    Validated =>
        /\ Val(result).status \in {"conforme", "non_conforme"}
        /\ Val(result).problems # <<>> => Val(result).status = "non_conforme"
        /\ (Val(result).status = "non_conforme" /\ Val(result).problems = <<>>)
            <=> /\ Val(field_result).status = "conforme"
                /\ tech_problems = <<>>
                /\ uploaded_missing_docs = <<>>
                /\ Val(pdf_result).status # "conforme"
                /\ Val(pdf_result).problems = <<>>
        /\ (Val(result).status = "non_conforme" /\ Val(result).problems = <<>>)
            => Upper(delegataire) # "HOMELIOR"

\* the AI checker objects without a problem: "non_conforme" with nothing merged
C2_Witness ==
    /\ Validated
    /\ Val(result).status = "non_conforme"
    /\ Val(result).problems = <<>>
    /\ Val(result).main_reasons = <<SansDetail>>
    /\ Val(pdf_result) \in AIResults

\* the messages of the problems a verdict holds under a role
MsgsOf(probs, tag) == {probs[i].msg : i \in {j \in DOMAIN probs : probs[j].role = tag}}

\* the certificate's "le dd/mm/yyyy" as a valid date, None without one
DateAFT ==
    IF IsSome(docs.aft) THEN ValidDate(SearchLabeledDate("le", Val(docs.aft).norm)) ELSE None

\* C11 (as claimed): a cross-document comparison skipped for an absent
\* operand gives no mismatch problem, and the verdict holds a problem of the
\* operand's own rule that reports the absent operand.
C11_SkipIsReported ==
    pc = "done" =>
        LET ps == Val(verdict).problems
        IN  /\ (IsSome(docs.bl) /\ dates.facture = None) =>
                /\ BLDateDiffere(0, 0).msg \notin MsgsOf(ps, "BON DE LIVRAISON")
                /\ MsgsOf(ps, "FACTURE") \cap {FactureAbsent.msg} # {}
            /\ (IsSome(docs.bl) /\ dates.bl = None) =>
                /\ BLDateDiffere(0, 0).msg \notin MsgsOf(ps, "BON DE LIVRAISON")
                /\ MsgsOf(ps, "BON DE LIVRAISON") # {}
            /\ (IsSome(DateAFT) /\ dates.facture = None) =>
                /\ AFTDateDiffereFacture(0, 0).msg \notin MsgsOf(ps, "AFT")
                /\ MsgsOf(ps, "FACTURE") \cap {FactureAbsent.msg} # {}
            /\ (IsSome(DateAFT) /\ dates.bl = None) =>
                /\ AFTDateDiffereBL(0, 0).msg \notin MsgsOf(ps, "AFT")
                /\ MsgsOf(ps, "BON DE LIVRAISON") # {}
            /\ (IsSome(docs.cadre)
                    /\ InText("une prime d un montant de", Val(docs.cadre).norm)
                    /\ PrimeCEE(fields) = W("")) =>
                /\ ~HasMismatch(ps)
                /\ MsgsOf(ps, "CADRE") \cap {CadreMontantInexploitable.msg,
                                            CadrePrimeNonNumerique(W("")).msg} # {}

\* the half of C11 that holds: a skipped comparison gives no mismatch problem
C11_SkipGivesNoMismatch ==
    pc = "done" =>
        LET ps == Val(verdict).problems
        IN  /\ (dates.facture = None \/ dates.bl = None) =>
                BLDateDiffere(0, 0).msg \notin MsgsOf(ps, "BON DE LIVRAISON")
            /\ (dates.facture = None \/ DateAFT = None) =>
                AFTDateDiffereFacture(0, 0).msg \notin MsgsOf(ps, "AFT")
            /\ (dates.bl = None \/ DateAFT = None) =>
                AFTDateDiffereBL(0, 0).msg \notin MsgsOf(ps, "AFT")
            /\ PrimeCEE(fields) = W("") => ~HasMismatch(ps)

\* the files of the bundle whose lower-cased name contains every keyword of K
MatchingFiles(K) ==
    {i \in DOMAIN pdf_texts : \A kw \in K : Contains(Lower(pdf_texts[i].name), kw)}

\* the name of the first of them, None if there is none
FirstMatch(K) ==
    IF MatchingFiles(K) = {} THEN None
    ELSE Some(pdf_texts[Least(MatchingFiles(K))].name)

NameOf(doc) == IF IsSome(doc) THEN Some(Val(doc).name) ELSE None

\* C12: each role is bound to the first file, in the order of the bundle,
\* whose lower-cased name contains every keyword of the role's set, and to
\* none if no name does (for the honor statement and the certificate the
\* second set is tried when the first binds nothing); the text checked is
\* that file's, so a later matching file is never the one checked.
C12_FirstMatchBinds ==
    pc \in After("classify") =>
        /\ NameOf(docs.devis) = FirstMatch({kw_devis})
        /\ NameOf(docs.cadre) = FirstMatch({kw_cadre})
        /\ NameOf(docs.facture) = FirstMatch({kw_facture})
        /\ NameOf(docs.bl) = FirstMatch({kw_bon, kw_livraison})
        /\ NameOf(docs.ah) = OrElse(FirstMatch({kw_ah}), FirstMatch({kw_attestation, kw_honneur}))
        /\ NameOf(docs.aft) = OrElse(FirstMatch({kw_aft}), FirstMatch({kw_fin, kw_travaux}))
        /\ \A r \in Roles : IsSome(docs[r]) =>
                \E i \in DOMAIN pdf_texts :
                    /\ pdf_texts[i].name = Val(docs[r]).name
                    /\ pdf_texts[i].text = Val(docs[r]).txt
                    /\ Val(docs[r]).norm = _normalize(pdf_texts[i].text)

\* two files match the invoice role; the first one, with a balance due, is
\* the one checked, the later one without a balance is not
C12_Witness ==
    /\ pc = "done"
    /\ Cardinality(MatchingFiles({kw_facture})) >= 2
    /\ Val(docs.facture).name = n_facture_bl
    /\ \E i \in MatchingFiles({kw_facture}) :
            /\ pdf_texts[i].name = n_facture
            /\ SearchResteAPayer(_normalize(pdf_texts[i].text))
    /\ Has(Val(verdict).problems, FactureResteAPayer)

\* the bundle is one file whose lower-cased name contains "attest" and "aft"
OverlapBundle ==
    /\ Len(pdf_texts) = 1
    /\ Contains(Lower(pdf_texts[1].name), kw_attest)
    /\ Contains(Lower(pdf_texts[1].name), kw_aft)

\* C13 (as claimed): the only file of the bundle, named with "attest" and
\* "aft", is the honor statement and the completion certificate at once,
\* and neither role reports "not found".
C13_OverlapBothRoles ==
    OverlapBundle =>
        /\ pc \in After("classify") =>
                /\ NameOf(docs.ah) = Some(pdf_texts[1].name)
                /\ NameOf(docs.aft) = Some(pdf_texts[1].name)
        /\ pc = "done" =>
                /\ ~Has(Val(verdict).problems, AHAbsent)
                /\ ~Has(Val(verdict).problems, AFTAbsent)

\* C13 (amended): for the only file of the bundle, named with "attest" and
\* "aft": the presence check of validate_dossier counts it as honor
\* statement and as completion certificate; analyze_homelior binds it to
\* the completion certificate, and to the honor statement only if its name
\* also contains "ah" or both "attestation" and "honneur", reporting the
\* honor statement as not found otherwise.
C13_OverlapPresenceOnly ==
    OverlapBundle =>
        LET name == Lower(pdf_texts[1].name)
            is_ah == \/ Contains(name, kw_ah)
                     \/ Contains(name, kw_attestation) /\ Contains(name, kw_honneur)
        IN  /\ pc \in After("classify") =>
                    /\ NameOf(docs.aft) = Some(pdf_texts[1].name)
                    /\ IsSome(docs.ah) <=> is_ah
                    /\ IsSome(docs.ah) => NameOf(docs.ah) = Some(pdf_texts[1].name)
            /\ pc = "done" =>
                    /\ ~Has(Val(verdict).problems, AFTAbsent)
                    /\ Has(Val(verdict).problems, AHAbsent) <=> ~is_ah
            /\ pc \in {"v_pdf", "v_aggregate", "v_done"} =>
                    /\ ~Has(uploaded_missing_docs, DocMissing("attestation_sur_honneur"))
                    /\ ~Has(uploaded_missing_docs, DocMissing("attestation_fin_travaux"))

\* attest_aft.pdf: both document types are required and found present,
\* while the rules report the honor statement as not found
C13_Witness ==
    /\ OverlapBundle
    /\ pc = "v_done"
    /\ pdf_texts[1].name = n_attest_aft
    /\ Has(deleg_rules.required_documents, "attestation_sur_honneur")
    /\ Has(deleg_rules.required_documents, "attestation_fin_travaux")
    /\ ~Has(uploaded_missing_docs, DocMissing("attestation_sur_honneur"))
    /\ ~Has(uploaded_missing_docs, DocMissing("attestation_fin_travaux"))
    /\ IsSome(docs.aft)
    /\ docs.ah = None
    /\ Has(Val(pdf_result).problems, AHAbsent)

\* the place of a role in the processing order
RoleRank(tag) ==
    CASE tag = "DEVIS" -> 1 [] tag = "CADRE" -> 2 [] tag = "FACTURE" -> 3
      [] tag = "BON DE LIVRAISON" -> 4 [] tag = "AH" -> 5 [] tag = "AFT" -> 6
      [] OTHER -> 7

\* the problems of the comparisons between documents, or with the case fields
CrossCheckMsgs ==
    {BLDateDiffere(0, 0).msg, AFTDateDiffereFacture(0, 0).msg, AFTDateDiffereBL(0, 0).msg,
     CadreMontantDiffere(0, 0).msg, CadreDateDiffere.msg}

InRoleOrder(ps) ==
    \A i, j \in DOMAIN ps : i < j => RoleRank(ps[i].role) <= RoleRank(ps[j].role)

\* C14 (as claimed): the problems come in the order quote, frame, invoice,
\* delivery note, honor statement, completion certificate, and the problems
\* of the cross-document comparisons come after all of them.
C14_RolesThenCrossChecks ==
    pc = "done" =>
        LET ps == Val(verdict).problems
        IN  /\ InRoleOrder(ps)
            /\ \A i, j \in DOMAIN ps :
                    (ps[i].msg \in CrossCheckMsgs /\ ps[j].msg \notin CrossCheckMsgs) => j < i

\* C14 (amended): the problems come in the order quote, frame, invoice,
\* delivery note, honor statement, completion certificate, at every moment of
\* the evaluation; there is no part for the cross-document comparisons: each
\* of their problems stands among the problems of the role whose rule makes
\* the comparison.
C14_RoleOrder ==
    /\ InRoleOrder(problems)
    /\ \A i \in DOMAIN problems : RoleRank(problems[i].role) <= 6
    /\ pc = "done" => Val(verdict).problems = problems

\* the delivery note's date mismatch stands before the honor statement's problem
C14_Witness ==
    /\ pc = "done"
    /\ \E i, j, k \in DOMAIN problems :
            /\ i < j /\ j < k
            /\ problems[i].role = "DEVIS"
            /\ problems[j].msg = BLDateDiffere(0, 0).msg
            /\ problems[k].role = "AH"

\* the same bundle and case fields have been evaluated a second time
EvaluatedAgain == pc = "done" /\ IsSome(prev) /\ Val(prev).removed = <<>>

ScenarioA ==
    /\ Len(pdf_texts) = 1
    /\ Lower(pdf_texts[1].name) = n_devis_pdf
    /\ \A i \in DOMAIN pdf_texts[1].text :
            /\ pdf_texts[1].text[i].k # "date"
            /\ pdf_texts[1].text[i].k = "ref" => pdf_texts[1].text[i].b < 4

\* C16: in scenario A the verdict holds the quote header problem, the
\* missing-quote-date problem and the "not found" problem of each of the
\* five other roles, and its status is "non_conforme".
C16_ScenarioA ==
    (pc = "done" /\ ScenarioA) =>
        /\ Has(Val(verdict).problems, DevisHeader)
        /\ Has(Val(verdict).problems, DevisDateIndeterminee)
        /\ \A r \in Roles \ {"devis"} : Has(Val(verdict).problems, Absent(r))
        /\ ~Has(Val(verdict).problems, DevisAbsent)
        /\ Val(verdict).status = "non_conforme"

\* devis.pdf with the word "devis" and a reference too short for the header
C16_Witness ==
    /\ pc = "done"
    /\ ScenarioA
    /\ pdf_texts[1].name = n_devis_pdf
    /\ pdf_texts[1].text = <<W("devis"), R(2024, 3)>>
    /\ Len(Val(verdict).problems) >= 7

\* how many problems of a verdict carry the message
Count(ps, msg) == Cardinality({i \in DOMAIN ps : ps[i].msg = msg})

\* the first dd/mm/yyyy of the document of a role
FirstBareDate(doc) == IF IsSome(doc) THEN _find_date_any(Val(doc).norm) ELSE None

\* the date mismatch of the delivery note comes once when both dates are
\* resolved and differ, naming both, and not at all otherwise
MismatchOnceIfDiffer ==
    LET ps == Val(verdict).problems
        differ == IsSome(dates.facture) /\ IsSome(dates.bl) /\ dates.facture # dates.bl
    IN  /\ Count(ps, BLDateDiffere(0, 0).msg) = IF differ THEN 1 ELSE 0
        /\ differ => Has(ps, BLDateDiffere(Val(dates.bl), Val(dates.facture)))

\* C17 (as claimed): with a delivery note classified, the delivery-note /
\* invoice date mismatch comes exactly once if both dates are resolved and
\* differ, and not at all otherwise; a delivery note of 12/03/2024 with an
\* invoice whose first date is 12/03/2024 gives no such problem.
C17_FirstBareDateAgrees ==
    (pc = "done" /\ IsSome(docs.bl)) =>
        /\ MismatchOnceIfDiffer
        /\ (FirstBareDate(docs.bl) = Some(D3) /\ FirstBareDate(docs.facture) = Some(D3))
            => Count(Val(verdict).problems, BLDateDiffere(0, 0).msg) = 0

\* C17 (amended): with a delivery note classified, the delivery-note /
\* invoice date mismatch comes exactly once if both dates are resolved and
\* differ, and not at all otherwise; the invoice date is the date labeled
\* "date de facture" when the invoice has that label, and its first date
\* only when it has not: a delivery note of 12/03/2024 with an invoice
\* whose first date is 12/03/2024 gives no such problem when the invoice
\* has no "date de facture" label, and gives it when the label carries
\* another valid date.
C17_InvoiceDateAgrees ==
    (pc = "done" /\ IsSome(docs.bl)) =>
        LET labeled == IF IsSome(docs.facture)
                       THEN SearchLabeledDate("date de facture", Val(docs.facture).norm)
                       ELSE None
            same == FirstBareDate(docs.bl) = Some(D3) /\ FirstBareDate(docs.facture) = Some(D3)
        IN  /\ MismatchOnceIfDiffer
            /\ (same /\ labeled = None)
                => Count(Val(verdict).problems, BLDateDiffere(0, 0).msg) = 0
            /\ (same /\ IsSome(ValidDate(labeled)) /\ labeled # Some(D3))
                => Count(Val(verdict).problems, BLDateDiffere(0, 0).msg) = 1

\* scenario B: facture.pdf with "reste a payer 0,00" and the first date
\* 12/03/2024, bon_de_livraison.pdf of 12/03/2024
C17_Witness ==
    /\ pc = "done"
    /\ Len(pdf_texts) = 2
    /\ IsSome(docs.facture)
    /\ IsSome(docs.bl)
    /\ Val(docs.facture).txt = t_facture_b
    /\ Val(docs.bl).name = n_bl
    /\ dates.bl = dates.facture
    /\ dates.bl = ValidDate(Some(D3))
    /\ Count(Val(verdict).problems, BLDateDiffere(0, 0).msg) = 0

\* 1 if the date is resolved and differs from d, else 0
Differs(date, d) == IF IsSome(date) /\ date # d THEN 1 ELSE 0

\* C18: with a completion certificate classified and a valid "le dd/mm/yyyy"
\* date d found on it, the certificate has as many problems as there are
\* resolved dates, among the invoice's and the delivery note's, that differ
\* from d, each with its own problem; when the pattern is not found the
\* certificate has exactly one problem, the "no date found" problem, which
\* is neither of the mismatch problems.
C18_CertificateProblems ==
    (pc = "done" /\ IsSome(docs.aft)) =>
        LET ps == Val(verdict).problems
            m_aft == SearchLabeledDate("le", Val(docs.aft).norm)
        IN  /\ IsSome(DateAFT) =>
                /\ Len(OfRole(ps, "AFT"))
                        = Differs(dates.facture, DateAFT) + Differs(dates.bl, DateAFT)
                /\ Count(ps, AFTDateDiffereFacture(0, 0).msg) = Differs(dates.facture, DateAFT)
                /\ Count(ps, AFTDateDiffereBL(0, 0).msg) = Differs(dates.bl, DateAFT)
            /\ m_aft = None =>
                /\ OfRole(ps, "AFT") = <<AFTDateAbsente>>
                /\ AFTDateAbsente.msg \notin {AFTDateDiffereFacture(0, 0).msg,
                                              AFTDateDiffereBL(0, 0).msg}

\* a certificate whose date differs from the invoice's and from the delivery note's
C18_Witness ==
    /\ pc = "done"
    /\ IsSome(docs.aft)
    /\ IsSome(DateAFT)
    /\ Differs(dates.facture, DateAFT) = 1
    /\ Differs(dates.bl, DateAFT) = 1
    /\ Len(OfRole(Val(verdict).problems, "AFT")) = 2

\* the frame's "date de cette proposition dd/mm/yyyy", None without the pattern
LabelCadre ==
    IF IsSome(docs.cadre)
    THEN SearchLabeledDate("date de cette proposition", Val(docs.cadre).norm)
    ELSE None

\* C19: with a frame classified, the "label not found" problem is in the
\* verdict iff the label pattern is absent; the "inconsistent with the quote
\* date" problem is in it iff the label carries a date that differs from
\* the resolved quote date, which never happens, a labeled date being the
\* resolved quote date; the two problems are never together.
C19_FrameDateProblems ==
    (pc = "done" /\ IsSome(docs.cadre)) =>
        LET ps == Val(verdict).problems
            d_prop == ValidDate(LabelCadre)
        IN  /\ Has(ps, CadreDateAbsente) <=> LabelCadre = None
            /\ Has(ps, CadreDateDiffere)
                    <=> (IsSome(d_prop) /\ IsSome(dates.devis) /\ d_prop # dates.devis)
            /\ IsSome(d_prop) => dates.devis = d_prop
            /\ ~(Has(ps, CadreDateAbsente) /\ Has(ps, CadreDateDiffere))
            /\ Count(ps, CadreDateAbsente.msg) <= 1

\* a frame labeled 15/01/2024 next to an invoice that refers to a quote of
\* 20/02/2024: the labeled date is the quote date, and neither problem comes
C19_Witness ==
    /\ pc = "done"
    /\ IsSome(docs.cadre)
    /\ IsSome(docs.facture)
    /\ LabelCadre = Some(D1)
    /\ SearchDevisDate(Val(docs.facture).norm) = Some(D2)
    /\ dates.devis = ValidDate(Some(D1))
    /\ ~Has(Val(verdict).problems, CadreDateAbsente)
    /\ ~Has(Val(verdict).problems, CadreDateDiffere)

\* a day of 01/01/2024 .. 28/02/2024
InWindow(x) == x.y = 2024 /\ (x.m = 1 \/ (x.m = 2 /\ x.d <= 28))

Day(dd, mm, yyyy) == Some([d |-> dd, m |-> mm, y |-> yyyy])

\* C20: with a quote classified, a resolved quote date brings the
\* out-of-window problem iff it lies outside 01/01/2024 .. 28/02/2024, both
\* ends accepted, 31/12/2023 and 29/02/2024 flagged, and never the
\* "cannot determine" problem; without a resolved quote date the verdict
\* has the "cannot determine" problem exactly once and no out-of-window one.
C20_QuoteWindow ==
    (pc = "done" /\ IsSome(docs.devis)) =>
        LET ps == Val(verdict).problems
        IN  IF IsSome(dates.devis)
            THEN /\ Has(ps, DevisDateHorsFenetre(Val(dates.devis)))
                        <=> ~InWindow(Val(dates.devis))
                 /\ Count(ps, DevisDateHorsFenetre(Val(dates.devis)).msg)
                        = (IF InWindow(Val(dates.devis)) THEN 0 ELSE 1)
                 /\ Count(ps, DevisDateIndeterminee.msg) = 0
                 /\ dates.devis \in {Day(1, 1, 2024), Day(28, 2, 2024)}
                        => Count(ps, DevisDateHorsFenetre(Val(dates.devis)).msg) = 0
                 /\ dates.devis \in {Day(31, 12, 2023), Day(29, 2, 2024)}
                        => Has(ps, DevisDateHorsFenetre(Val(dates.devis)))
            ELSE /\ Count(ps, DevisDateIndeterminee.msg) = 1
                 /\ Count(ps, DevisDateHorsFenetre(D1).msg) = 0

\* a quote whose date resolves to 28/02/2024, the last day of the window
C20_Witness ==
    /\ pc = "done"
    /\ IsSome(docs.devis)
    /\ dates.devis = Day(28, 2, 2024)
    /\ Count(Val(verdict).problems, DevisDateHorsFenetre(Val(dates.devis)).msg) = 0

\* the file bound to a role whose first keyword set is P and second set F:
\* the first file matching P if a file of the bundle matches P, wherever
\* it stands, and the first file matching F only otherwise
PrimaryThenFallback(P, F) ==
    IF MatchingFiles(P) # {} THEN Some(pdf_texts[Least(MatchingFiles(P))])
    ELSE IF MatchingFiles(F) # {} THEN Some(pdf_texts[Least(MatchingFiles(F))])
    ELSE None

FileOf(doc) == IF IsSome(doc) THEN Some(File(Val(doc).name, Val(doc).txt)) ELSE None

\* C21: the honor statement is the first file named with "ah" whenever the
\* bundle has one, even behind a file named with "attestation" and
\* "honneur", which is bound only when no name contains "ah"; the same for
\* the completion certificate with "aft" before "fin" and "travaux".
C21_PrimaryBeforeFallback ==
    pc \in After("classify") =>
        /\ FileOf(docs.ah) = PrimaryThenFallback({kw_ah}, {kw_attestation, kw_honneur})
        /\ FileOf(docs.aft) = PrimaryThenFallback({kw_aft}, {kw_fin, kw_travaux})
        /\ MatchingFiles({kw_ah}) # {} =>
                Contains(Lower(Val(docs.ah).name), kw_ah)
        /\ MatchingFiles({kw_aft}) # {} =>
                Contains(Lower(Val(docs.aft).name), kw_aft)

\* attestation_honneur.pdf stands before AH.pdf and fin_travaux.pdf before
\* aft.pdf; AH.pdf and aft.pdf are the files checked
C21_Witness ==
    /\ pc = "done"
    /\ \E i \in MatchingFiles({kw_attestation, kw_honneur}) :
            i < Least(MatchingFiles({kw_ah}) \cup {Len(pdf_texts) + 1})
    /\ \E i \in MatchingFiles({kw_fin, kw_travaux}) :
            i < Least(MatchingFiles({kw_aft}) \cup {Len(pdf_texts) + 1})
    /\ MatchingFiles({kw_ah}) # {}
    /\ MatchingFiles({kw_aft}) # {}
    /\ FileOf(docs.ah) = Some(File(n_ah, t_ah_ok))
    /\ FileOf(docs.aft) = Some(File(n_aft, t_aft_ok))

\* C22: no verdict of analyze_homelior, and no problems list on the way to
\* it, holds the problem "la Date de cette proposition ne correspond pas a
\* la date de devis": once the dates are resolved, a frame label with a
\* valid date has that date as the quote date, and a label whose date is
\* not a calendar date brings no comparison.
C22_NeverInconsistent ==
    /\ ~Has(problems, CadreDateDiffere)
    /\ \A v \in Verdicts : ~Has(v.problems, CadreDateDiffere)
    /\ IsSome(pdf_result) => ~Has(Val(pdf_result).problems, CadreDateDiffere)
    /\ (pc \in After("dates_cadre") /\ IsSome(ValidDate(LabelCadre)))
            => dates.devis = ValidDate(LabelCadre)

\* the frame is labeled 31/02/2024 and the quote date comes from elsewhere:
\* the frame was checked, and the verdict holds neither problem on the label
C22_Witness ==
    /\ pc = "done"
    /\ LabelCadre = Some(DBad)
    /\ ValidDate(LabelCadre) = None
    /\ IsSome(dates.devis)
    /\ ~Has(Val(verdict).problems, CadreDateDiffere)
    /\ ~Has(Val(verdict).problems, CadreDateAbsente)

\* C23 (as claimed): in the answer of the /analyze handler the status
\* "conforme" comes with an empty problems list, uploads without content
\* included.
C23_ConformeWithoutProblems ==
    IsSome(response) =>
        (Val(response).status = "conforme" => Val(response).problems = <<>>)

\* what holds of the answer: without an ignored upload it is the result of
\* validate_dossier, and with one the status is that of validate_dossier
\* and the problems list is its list with the ignored-files message at the end
C23_AnswerIsResultPlusIgnored ==
    IsSome(response) =>
        /\ Val(response).status = Val(result).status
        /\ Val(response).problems =
                (IF ignored_files = <<>> THEN Val(result).problems
                 ELSE Append(Val(result).problems, IgnoredMsg(ignored_files)))
        /\ Val(result).status = "conforme" => Val(result).problems = <<>>

\* the role of analyze_homelior for a document type of validate_dossier
RoleOf(doc_type) ==
    CASE doc_type = "devis" -> "devis"
      [] doc_type = "facture" -> "facture"
      [] doc_type = "attestation_sur_honneur" -> "ah"
      [] doc_type = "attestation_fin_travaux" -> "aft"
      [] doc_type = "bon_livraison" -> "bl"
      [] doc_type = "cadre_contribution" -> "cadre"

\* validate_dossier returned for a HOMELIOR dossier whose PDFs went
\* through analyze_homelior
HomeliorValidated ==
    /\ Validated
    /\ Upper(delegataire) = "HOMELIOR"
    /\ pdf_texts # <<>>
    /\ pdf_result = verdict

\* the required document types marked present in document_presence
Present ==
    {deleg_rules.required_documents[i] : i \in DOMAIN deleg_rules.required_documents}
        \cap {t \in {"devis", "facture", "attestation_sur_honneur", "attestation_fin_travaux",
                     "bon_livraison", "cadre_contribution"} : Detected(t, pdf_texts)}

\* the role of a document type has a file and no "no document found" problem
Classified(t) ==
    /\ IsSome(docs[RoleOf(t)])
    /\ ~Has(Val(pdf_result).problems, Absent(RoleOf(t)))

\* C24 (as claimed): every document type that validate_dossier marks
\* present has a file classified into its role by analyze_homelior, which
\* then does not report the role as not found.
C24_ClassifiersAgree ==
    HomeliorValidated => \A t \in Present : Classified(t)

\* C24 (amended): a quote and a completion certificate marked present are
\* classified into their role; an invoice, an honor statement, a delivery
\* note and a contribution frame marked present are classified exactly when
\* a file name also holds the keywords of analyze_homelior for the role.
C24_AgreeOnQuoteAndCertificate ==
    HomeliorValidated =>
        /\ \A t \in Present \cap {"devis", "attestation_fin_travaux"} : Classified(t)
        /\ "facture" \in Present =>
                (Classified("facture") <=> MatchingFiles({kw_facture}) # {})
        /\ "bon_livraison" \in Present =>
                (Classified("bon_livraison") <=> MatchingFiles({kw_bon, kw_livraison}) # {})
        /\ "cadre_contribution" \in Present =>
                (Classified("cadre_contribution") <=> MatchingFiles({kw_cadre}) # {})
        /\ "attestation_sur_honneur" \in Present =>
                (Classified("attestation_sur_honneur")
                    <=> (MatchingFiles({kw_ah}) # {}
                            \/ MatchingFiles({kw_attestation, kw_honneur}) # {}))

\* Devis.pdf, contribution.pdf, FAC_1.pdf, bl.pdf and "Fin de travaux.pdf":
\* the six types are required and all but the honor statement are marked
\* present; the quote and the certificate are classified, the invoice, the
\* delivery note and the frame are reported as not found
C24_Witness ==
    /\ HomeliorValidated
    /\ Present = {"devis", "facture", "attestation_fin_travaux", "bon_livraison",
                  "cadre_contribution"}
    /\ Classified("devis")
    /\ Classified("attestation_fin_travaux")
    /\ Val(docs.aft).name = n_fin_de_travaux
    /\ Has(Val(pdf_result).problems, FactureAbsent)
    /\ Has(Val(pdf_result).problems, BLAbsent)
    /\ Has(Val(pdf_result).problems, CadreAbsent)

\* the findings on the case fields, as validate_dossier words them
FieldFindings ==
    IF Val(field_result).status # "conforme"
    THEN <<ChampsManquants(Val(field_result).missing_fields),
           DocumentsManquants(Val(field_result).missing_documents)>>
    ELSE <<>>

\* the problems of the PDF analysis that validate_dossier takes over
PdfFindings ==
    IF Val(pdf_result).status # "conforme" THEN Val(pdf_result).problems ELSE <<>>

Min(a, b) == IF a < b THEN a ELSE b

\* C25: in the result of validate_dossier the summary has at most 5
\* reasons; the problems list is the field findings, then the empty-file
\* findings, then the missing document types, then the problems of the PDF
\* analysis; with "non_conforme" and a non-empty list the summary is its
\* first min(5, n) entries in that order; with "conforme" it is the single
\* message "Dossier conforme".
C25_SummaryIsFirstFive ==
    Validated =>
        LET r == Val(result)
            n == Len(r.problems)
        IN  /\ Len(r.main_reasons) <= 5
            /\ r.problems = FieldFindings \o tech_problems \o uploaded_missing_docs
                                \o PdfFindings
            /\ (r.status = "non_conforme" /\ n > 0) =>
                    /\ Len(r.main_reasons) = Min(5, n)
                    /\ \A i \in 1..Min(5, n) : r.main_reasons[i] = r.problems[i]
            /\ r.status = "conforme" => r.main_reasons = <<DossierConforme>>

\* a result with findings of the four kinds and more than five problems:
\* the summary stops after the fifth
C25_Witness ==
    /\ Validated
    /\ FieldFindings # <<>>
    /\ tech_problems # <<>>
    /\ uploaded_missing_docs # <<>>
    /\ PdfFindings # <<>>
    /\ Len(Val(result).problems) > 5
    /\ Len(Val(result).main_reasons) = 5

====
